---- MODULE Spec2Model ----
(***************************************************************************)
(* x402 payment gate in front of the CRE workflow registry.                *)
(*                                                                         *)
(* Amounts of USDC that the source holds as JavaScript numbers (prices)    *)
(* are held here in tenths of a micro-USDC, so that the rounding           *)
(* Math.round(price * 1_000_000) is an operation that can change a value.  *)
(* Amounts that the source holds as BigInt (micro-USDC) are integers.      *)
(*                                                                         *)
(* A JSON value is a record tagged by k: "absent" (key not in the object), *)
(* "null", "int" (a number or a numeric string), "nan" (a string that is   *)
(* no number), "str" (an address string), "num" (a non-string where a      *)
(* string is expected), "obj".                                             *)
(*                                                                         *)
(* Eight specifications share the variables: Spec (the gateway, the       *)
(* server and the middleware verifying proofs), ReplaySpec (a gateway to   *)
(* which the proof of a returned call is presented again), RegistrySpec    *)
(* (the registry used directly), TaskSpec (orchestrateAgentTask on top of  *)
(* invoke), OrchSpec (WorkflowOrchestrator.orchestrate over a client whose *)
(* invoke resolves or rejects as AgentClient.invoke does), ClientSpec      *)
(* (AgentClient: its discovery, invoke, submitTask and batchInvoke against *)
(* the replies of a gateway), BatchSpec (batchOrchestrate over concurrent  *)
(* runs) and ShapesSpec (the middleware verifying proofs of every shape    *)
(* the type guards distinguish).                                           *)
(***************************************************************************)
EXTENDS Integers, Sequences, FiniteSets, TLC

\* ------------------------------------------------------------------ bounds
MaxTime == 2
MaxRegs == 1
MaxSteps == 3
MaxInvocations == 2
MaxRuns == 2
MaxPresentations == 2

\* ------------------------------------------------------------ JSON values
Absent == [k |-> "absent"]
Null == [k |-> "null"]
NaNStr == [k |-> "nan"]
NonStr == [k |-> "num"]
Int_(n) == [k |-> "int", n |-> n]
Str(a) == [k |-> "str", a |-> a]

\* a ?? b
Nullish(v) == v.k \in {"absent", "null"}
Coalesce(v, d) == IF Nullish(v) THEN d ELSE v

\* An address string: who it names and how its hex digits are cased.
Addr(id, cs) == [id |-> id, cs |-> cs]
EmptyString == Addr("", "lower")
toLowerCase(a) == [a EXCEPT !.cs = "lower"]

RECIPIENT == Addr("merchant", "mixed")
RecipientLower == Addr("merchant", "lower")
OtherRecipient == Addr("stranger", "mixed")
PAYER == Addr("payer", "mixed")

\* -------------------------------------------------------- number handling
\* Math.round(price * 1_000_000) of a price held in tenths of a micro-USDC:
\* round half up.
RoundToMicro(p) == (p + 5) \div 10

\* BigInt(v): v is a number or numeric string, else it throws.
BigIntOk(v) == v.k = "int"

\* parseInt(v): NaN for a string that does not start with digits.
ParseIntIsNaN(v) == v.k # "int"

\* ------------------------------------------------------- verifier results
NoAmount == 0

Returned(valid, amount, recipient, payer, error) ==
    [kind |-> "returned", valid |-> valid, amount |-> amount,
     recipient |-> recipient, payer |-> payer, error |-> error]

\* The promise returned by verify is rejected with this exception.
Threw(exception) ==
    [kind |-> "threw", valid |-> FALSE, amount |-> NoAmount,
     recipient |-> EmptyString, payer |-> EmptyString, error |-> exception]

\* ------------------------------------------------------------ proof codec
\* decodePaymentProof: TRUE when it throws.  The wire string is base64 of a
\* JSON text, a JSON text, or neither; the document must be a non-null object.
decodePaymentProofThrows(wire) ==
    \/ wire.enc = "garbage"
    \/ wire.doc.k # "obj"

decodePaymentProof(wire) == wire.doc

isRealX402Proof(doc) ==
    /\ doc.x402Version.k # "absent"
    /\ doc.payload.k # "absent"
    /\ doc.payload.k \in {"obj", "null"}      \* typeof null is "object"

isMockProof(doc) ==
    /\ doc.recipient.k # "absent"
    /\ doc.amount.k # "absent"
    /\ doc.payer.k # "absent"

\* ------------------------------------------------------- EIP-712 checking
USDC_DOMAIN_BASE == [chainId |-> 8453, verifyingContract |-> "none"]
USDC_DOMAIN_BASE_SEPOLIA == [chainId |-> 84532, verifyingContract |-> "none"]

\* viem's verifyTypedData: "throws" for a malformed signature or address,
\* otherwise whether the signer recovered from the signature over this domain
\* and message is the given address.
verifyTypedData(address, domain, message, signature) ==
    IF signature.k # "sig" \/ address.k # "str" THEN "throws"
    ELSE IF /\ signature.signer = address.a.id
            /\ signature.domain = domain
            /\ signature.message = message
         THEN "true" ELSE "false"

\* The message the verifier rebuilds from the authorization .
TypedMessage(auth) ==
    [from |-> auth.from, to |-> auth.to, value |-> auth.value,
     validAfter |-> auth.validAfter, validBefore |-> auth.validBefore,
     nonce |-> auth.nonce]

\* --------------------------------------------------------------- verifier
\* recipient.toLowerCase() !== this.config.recipientAddress.toLowerCase()
RecipientMismatch(recipient, expected) ==
    toLowerCase(recipient) # toLowerCase(expected)

\* amount < requiredAmount
Insufficient_OffByOne(amount, requiredAmount) == amount <= requiredAmount

Insufficient_Lenient(amount, requiredAmount) == amount < requiredAmount - 1

Insufficient(amount, requiredAmount) == amount < requiredAmount

\* now < validAfter, false when validAfter is NaN
NotYetValid(now, validAfter) ==
    ~ParseIntIsNaN(validAfter) /\ now < validAfter.n

Expired_OneEarly(now, validBefore) ==
    ~ParseIntIsNaN(validBefore) /\ now + 1 >= validBefore.n

\* now >= validBefore, false when validBefore is NaN
Expired(now, validBefore) ==
    ~ParseIntIsNaN(validBefore) /\ now >= validBefore.n

\* config: [recipientAddress, requiredAmountUSDC, simulationMode], where
\* simulationMode is "true", "false" or "undefined".
Truthy(flag) == flag = "true"

StrictCheck_ErrorPasses(proof, config, amount, recipient, payer) ==
    LET auth == proof.payload.authorization
        domain == IF proof.network = "base" THEN USDC_DOMAIN_BASE
                  ELSE USDC_DOMAIN_BASE_SEPOLIA
        messageThrows == \/ ~BigIntOk(auth.value)
                         \/ ~BigIntOk(auth.validAfter)
                         \/ ~BigIntOk(auth.validBefore)
        isValid == verifyTypedData(auth.from, domain, TypedMessage(auth),
                                   proof.payload.signature)
    IN  IF messageThrows \/ isValid = "throws"
        THEN Returned(TRUE, amount, recipient, payer, "none")
        ELSE IF isValid = "false"
        THEN Returned(FALSE, amount, recipient, payer, "signature-failed")
        ELSE Returned(TRUE, amount, recipient, payer, "none")

StrictCheck(proof, config, amount, recipient, payer) ==
    LET auth == proof.payload.authorization
        domain == IF proof.network = "base" THEN USDC_DOMAIN_BASE
                  ELSE USDC_DOMAIN_BASE_SEPOLIA
        messageThrows == \/ ~BigIntOk(auth.value)
                         \/ ~BigIntOk(auth.validAfter)
                         \/ ~BigIntOk(auth.validBefore)
        isValid == verifyTypedData(auth.from, domain, TypedMessage(auth),
                                   proof.payload.signature)
    IN  IF messageThrows \/ isValid = "throws"
        THEN Returned(FALSE, amount, recipient, payer, "signature-error")
        ELSE IF isValid = "false"
        THEN Returned(FALSE, amount, recipient, payer, "signature-failed")
        ELSE Returned(TRUE, amount, recipient, payer, "none")

verifyRealX402Proof(proof, config, now) ==
    IF proof.payload.k = "null" THEN Threw("TypeError")
    ELSE IF proof.payload.authorization.k # "obj" THEN Threw("TypeError")
    ELSE
    LET auth == proof.payload.authorization
        value == Coalesce(auth.value, Int_(0))
        to == Coalesce(auth.to, Str(EmptyString))
        from == Coalesce(auth.from, Str(EmptyString))
    IN  IF ~BigIntOk(value) THEN Threw("SyntaxError")
        ELSE IF to.k # "str" THEN Threw("TypeError")
        ELSE
        LET amount == value.n
            recipient == to.a
            payer == IF from.k = "str" THEN from.a ELSE EmptyString
            requiredAmount == RoundToMicro(config.requiredAmountUSDC)
            validAfter == Coalesce(auth.validAfter, Int_(0))
            validBefore == Coalesce(auth.validBefore, Int_(0))
        IN  IF RecipientMismatch(recipient, config.recipientAddress)
            THEN Returned(FALSE, amount, recipient, payer, "recipient-mismatch")
            ELSE IF Insufficient(amount, requiredAmount)
            THEN Returned(FALSE, amount, recipient, payer, "insufficient")
            ELSE IF NotYetValid(now, validAfter)
            THEN Returned(FALSE, amount, recipient, payer, "not-yet-valid")
            ELSE IF Expired(now, validBefore)
            THEN Returned(FALSE, amount, recipient, payer, "expired")
            ELSE IF Truthy(config.simulationMode)
            THEN Returned(TRUE, amount, recipient, payer, "none")
            ELSE StrictCheck(proof, config, amount, recipient, payer)

\* String(v) of a field that is expected to hold an address.
StringOf(v) == IF v.k = "str" THEN v.a ELSE Addr("non-string", "lower")

verifyMockProof(proof, config) ==
    LET amountField == Coalesce(proof.amount, Int_(0))
    IN  IF ~BigIntOk(amountField) THEN Threw("SyntaxError")
        ELSE
        LET amount == amountField.n
            recipient == StringOf(Coalesce(proof.recipient, Str(EmptyString)))
            payer == StringOf(Coalesce(proof.payer, Str(EmptyString)))
            requiredAmount == RoundToMicro(config.requiredAmountUSDC)
        IN  IF RecipientMismatch(recipient, config.recipientAddress)
            THEN Returned(FALSE, amount, recipient, payer, "recipient-mismatch")
            ELSE IF Insufficient(amount, requiredAmount)
            THEN Returned(FALSE, amount, recipient, payer, "insufficient")
            ELSE Returned(TRUE, amount, recipient, payer, "none")

verify_StrictRefusesSimple(wire, config, now) ==
    IF wire.enc = "empty"
    THEN Returned(FALSE, NoAmount, EmptyString, EmptyString, "missing-proof")
    ELSE IF decodePaymentProofThrows(wire)
    THEN Returned(FALSE, NoAmount, EmptyString, EmptyString, "decode-failed")
    ELSE LET decoded == decodePaymentProof(wire)
         IN  IF isRealX402Proof(decoded)
             THEN verifyRealX402Proof(decoded, config, now)
             ELSE IF isMockProof(decoded) /\ Truthy(config.simulationMode)
             THEN verifyMockProof(decoded, config)
             ELSE Returned(FALSE, NoAmount, EmptyString, EmptyString,
                           "unrecognized-format")

verify(wire, config, now) ==
    IF wire.enc = "empty"
    THEN Returned(FALSE, NoAmount, EmptyString, EmptyString, "missing-proof")
    ELSE IF decodePaymentProofThrows(wire)
    THEN Returned(FALSE, NoAmount, EmptyString, EmptyString, "decode-failed")
    ELSE LET decoded == decodePaymentProof(wire)
         IN  IF isRealX402Proof(decoded)
             THEN verifyRealX402Proof(decoded, config, now)
             ELSE IF isMockProof(decoded)
             THEN verifyMockProof(decoded, config)
             ELSE Returned(FALSE, NoAmount, EmptyString, EmptyString,
                           "unrecognized-format")

\* --------------------------------------------------------------- registry
\* A handler "returns", "throws", or throws unless the payload carries a
\* data array ("needs-data", the compute-task handler).
Workflow(price, handler) == [k |-> "wf", priceUSDC |-> price, handler |-> handler]

WorkflowNames ==
    {"price-feed", "agent-task-dispatch", "weather-oracle", "compute-task",
     "custom-wf"}

BUILT_IN_WORKFLOWS ==
    [n \in WorkflowNames |->
        CASE n = "price-feed" -> Workflow(10000, "returns")
          [] n = "agent-task-dispatch" -> Workflow(100000, "returns")
          [] n = "weather-oracle" -> Workflow(50000, "returns")
          [] n = "compute-task" -> Workflow(20000, "needs-data")
          [] OTHER -> Absent]

getWorkflow(registry, name) == registry[name]

\* this.workflows.set(wf.name, wf)
MapSet_KeepsFirst(registry, w) ==
    IF registry[w.name].k = "wf" THEN registry ELSE [registry EXCEPT ![w.name] = w.def]

MapSet(registry, w) == [registry EXCEPT ![w.name] = w.def]

\* new CREWorkflowRegistry(workflows): the built-ins are set first, then the
\* caller's definitions in the order given.
RECURSIVE SetAll(_, _)
SetAll(registry, list) ==
    IF list = <<>> THEN registry ELSE SetAll(MapSet(registry, Head(list)), Tail(list))

WorkflowList(items) == [k |-> "list", items |-> items]

NewRegistry(workflowsArg) ==
    SetAll(BUILT_IN_WORKFLOWS, IF Nullish(workflowsArg) THEN <<>> ELSE workflowsArg.items)

\* Array.from(this.workflows.values()): every definition carries its name.
listWorkflows(registry) ==
    {[name |-> n, def |-> registry[n]] : n \in {m \in DOMAIN registry : registry[m].k = "wf"}}

\* What a handler does with a payload: it returns a value or throws one. The
\* thrown value is an Error ("throws", and compute-task without a data array)
\* or, for a handler a caller registered, any value: a string, null.
ErrorValue(message) == [k |-> "error", message |-> message]
Value(v) == [k |-> "value", v |-> v]
Message(text) == [k |-> "msg", text |-> text]

HandlerOutcome(workflow, payload) ==
    CASE workflow.handler = "returns" ->
           [k |-> "returned", value |-> Value("result")]
      [] workflow.handler = "needs-data" ->
           IF payload = "data"
           THEN [k |-> "returned", value |-> Value("computed")]
           ELSE [k |-> "threw", thrown |-> ErrorValue("Payload must include 'data' array")]
      [] workflow.handler = "throws" ->
           [k |-> "threw", thrown |-> ErrorValue("handler-fault")]
      [] workflow.handler = "throws-string" ->
           [k |-> "threw", thrown |-> Value("fault")]
      [] OTHER -> [k |-> "threw", thrown |-> Null]

HandlerThrows(workflow, payload) == HandlerOutcome(workflow, payload).k = "threw"

\* (err as Error).message: the message of an Error, undefined for a value
\* without that property, and a TypeError when err is null or undefined.
MessageThrows(err) == Nullish(err)
MessageOf(err) == IF err.k = "error" THEN Message(err.message) ELSE Absent

Resolved(value) == [k |-> "resolved", value |-> value]
Rejected(reason) == [k |-> "rejected", reason |-> reason]

\* ---------------------------------------------------------- gateway config
\* { defaultPriceUSDC: 0.001, simulationMode: true, ...config }: a key the
\* caller leaves out keeps the default, a key passed as undefined replaces it.
SpreadOver(default, arg) == IF arg.k = "absent" THEN default ELSE arg

Flag(b) == [k |-> "bool", b |-> b]
Undefined == [k |-> "null"]

GatewayConfig(arg) ==
    [recipientAddress |-> arg.recipientAddress,
     defaultPriceUSDC |-> SpreadOver(Int_(10000), arg.defaultPriceUSDC),
     simulationMode |-> SpreadOver(Flag(TRUE), arg.simulationMode)]

\* const SIMULATION_MODE = process.env.SIMULATION_MODE !== "false"
ServerSimulationMode(env) == env # "false"

\* simulationMode: config.simulationMode ?? true
MiddlewareSimulationMode(arg) == Coalesce(arg, Flag(TRUE))

\* What the verifier sees of a flag: undefined is falsy.
FlagString(flag) ==
    IF flag.k = "bool" THEN (IF flag.b THEN "true" ELSE "false") ELSE "undefined"

\* ------------------------------------------------------------ task routing
\* A task description is a sequence of one-character strings.
UpperCase == <<"A", "B", "C", "D", "E", "F", "G", "H", "I", "J", "K", "L", "M",
               "N", "O", "P", "Q", "R", "S", "T", "U", "V", "W", "X", "Y", "Z">>
LowerCase == <<"a", "b", "c", "d", "e", "f", "g", "h", "i", "j", "k", "l", "m",
               "n", "o", "p", "q", "r", "s", "t", "u", "v", "w", "x", "y", "z">>

toLowerCaseChar(c) ==
    IF \E i \in DOMAIN UpperCase : UpperCase[i] = c
    THEN LowerCase[CHOOSE i \in DOMAIN UpperCase : UpperCase[i] = c]
    ELSE c

\* task.task.toLowerCase()
toLowerCaseText(text) == [i \in DOMAIN text |-> toLowerCaseChar(text[i])]

\* String.prototype.includes
includes(text, searchString) ==
    \E i \in 0..(Len(text) - Len(searchString)) :
        SubSeq(text, i + 1, i + Len(searchString)) = searchString

KwPrice == <<"p", "r", "i", "c", "e">>
KwToken == <<"t", "o", "k", "e", "n">>
KwWeather == <<"w", "e", "a", "t", "h", "e", "r">>
KwCompute == <<"c", "o", "m", "p", "u", "t", "e">>
KwCalculate == <<"c", "a", "l", "c", "u", "l", "a", "t", "e">>

RouteTask_WeatherFirst(text) ==
    IF includes(toLowerCaseText(text), KwWeather)
    THEN "weather-oracle"
    ELSE IF includes(toLowerCaseText(text), KwPrice)
            \/ includes(toLowerCaseText(text), KwToken)
    THEN "price-feed"
    ELSE IF includes(toLowerCaseText(text), KwCompute)
            \/ includes(toLowerCaseText(text), KwCalculate)
    THEN "compute-task"
    ELSE "agent-task-dispatch"

\* Lines 128-136 of orchestrateAgentTask.
RouteTask(text) ==
    IF includes(toLowerCaseText(text), KwPrice)
       \/ includes(toLowerCaseText(text), KwToken)
    THEN "price-feed"
    ELSE IF includes(toLowerCaseText(text), KwWeather)
    THEN "weather-oracle"
    ELSE IF includes(toLowerCaseText(text), KwCompute)
            \/ includes(toLowerCaseText(text), KwCalculate)
    THEN "compute-task"
    ELSE "agent-task-dispatch"

\* task.params ?? { task: task.task }: the object built from the description
\* carries no data array.
Params(payload) == [k |-> "obj", payload |-> payload]
TaskPayload(request) ==
    IF Nullish(request.params) THEN "no-data" ELSE request.params.payload

\* workflow?.priceUSDC ?? this.config.defaultPriceUSDC ?? 0.001
RequiredPrice(workflow, config) ==
    IF workflow.k = "wf" THEN workflow.priceUSDC
    ELSE Coalesce(config.defaultPriceUSDC, Int_(10000)).n

VerifierConfig(recipient, price, flag) ==
    [recipientAddress |-> recipient, requiredAmountUSDC |-> price,
     simulationMode |-> FlagString(flag)]

\* ------------------------------------------------------------ proof inputs
Junk == [k |-> "junk"]
Signature(signer, domain, message) ==
    [k |-> "sig", signer |-> signer, domain |-> domain, message |-> message]

Authorization(from, to, value, validAfter, validBefore) ==
    [k |-> "obj", from |-> from, to |-> to, value |-> value,
     validAfter |-> validAfter, validBefore |-> validBefore, nonce |-> 1]

Payload(signature, authorization) ==
    [k |-> "obj", signature |-> signature, authorization |-> authorization]

Document(version, payload, recipient, amount, payer) ==
    [k |-> "obj", x402Version |-> version, payload |-> payload,
     recipient |-> recipient, amount |-> amount, payer |-> payer,
     network |-> "base-sepolia"]

Wire(enc, doc) == [enc |-> enc, doc |-> doc]

\* Simple (mock) proofs.
MockProofs ==
    { Wire("base64", Document(Absent, Absent, Str(r), Int_(a), Str(PAYER))) :
        r \in {RecipientLower, OtherRecipient},
        a \in {999, 1000, 1001, 2000, 1000000} }
    \cup
    { Wire("json", Document(Absent, Absent, Str(RECIPIENT), Int_(1000), Str(PAYER))),
      Wire("base64", Document(Absent, Absent, Null, Null, Str(PAYER))),
      Wire("base64", Document(Absent, Absent, Str(RecipientLower), NaNStr, Str(PAYER))),
      Wire("base64", Document(Absent, Absent, Str(OtherRecipient), NaNStr, Str(PAYER))),
      Wire("base64", Document(Absent, Absent, NonStr, Int_(1000), Str(PAYER))) }

\* Delegated (real x402) proofs: the signature is the payer's over what the
\* verifier checks ("self"), another key's ("other"), or not a signature.
SignatureOf(kind, auth) ==
    CASE kind = "self" -> Signature("payer", USDC_DOMAIN_BASE_SEPOLIA, TypedMessage(auth))
      [] kind = "other" -> Signature("mallory", USDC_DOMAIN_BASE_SEPOLIA, TypedMessage(auth))
      [] OTHER -> Junk

RealProof(to, value, validAfter, validBefore, sk) ==
    Wire("base64",
         Document(Int_(1),
                  Payload(SignatureOf(sk, Authorization(Str(PAYER), to, value,
                                                        validAfter, validBefore)),
                          Authorization(Str(PAYER), to, value, validAfter, validBefore)),
                  Absent, Absent, Absent))

RealProofs ==
    { RealProof(Str(to), Int_(v), Int_(1), vb, sk) :
        to \in {RecipientLower, OtherRecipient},
        v \in {999, 1000},
        vb \in {Int_(2), NaNStr},
        sk \in {"self", "other", "junk"} }
    \cup
    { RealProof(Str(RecipientLower), Int_(1000), NaNStr, Int_(2), "self"),
      RealProof(Str(RecipientLower), Int_(1000), Absent, Absent, "self"),
      RealProof(Str(RecipientLower), Int_(1000), Absent, Int_(2), "self"),
      RealProof(Str(OtherRecipient), NaNStr, Int_(1), Int_(2), "self"),
      RealProof(Str(RecipientLower), NaNStr, Int_(1), Int_(2), "self"),
      RealProof(NonStr, Int_(1000), Int_(1), Int_(2), "self"),
      RealProof(Absent, Absent, Int_(1), Int_(2), "self") }

\* WalletSigner: the domain it signs over names the USDC contract of the
\* network.
USDC_EIP712_DOMAIN(network) ==
    [chainId |-> IF network = "base" THEN 8453 ELSE 84532,
     verifyingContract |-> IF network = "base" THEN "USDC_ADDRESS.base"
                           ELSE "USDC_ADDRESS.base-sepolia"]

\* new WalletSigner({privateKey}).createPaymentProof({recipient, amountUSDC})
\* at time now, for the key of `account`, on the default network.
createPaymentProof(account, recipient, amountUSDC, now) ==
    LET authorization == Authorization(Str(account), Str(recipient),
                                       Int_(RoundToMicro(amountUSDC)),
                                       Int_(now - 30), Int_(now + 300))
        signature == Signature(account.id, USDC_EIP712_DOMAIN("base-sepolia"),
                               TypedMessage(authorization))
    IN  Wire("base64",
             Document(Int_(1), Payload(signature, authorization), Absent, Absent, Absent))

BrokenProofs ==
    { Wire("empty", Absent),
      Wire("garbage", Absent),
      Wire("base64", Null),
      Wire("json", NonStr),
      Wire("base64", Document(Absent, Absent, Absent, Absent, Absent)),
      Wire("base64", Document(Int_(1), Null, Absent, Absent, Absent)),
      Wire("base64", Document(Int_(1), Payload(Junk, Absent), Absent, Absent, Absent)),
      Wire("base64", Document(Int_(1), NonStr, Str(RecipientLower), Int_(1000), Str(PAYER))) }

Proofs == MockProofs \cup RealProofs \cup BrokenProofs

Payloads == {"data", "no-data"}

\* custom-wf is unknown to the registry until it is registered.
InvokedNames == {"price-feed", "compute-task", "custom-wf"}

\* --------------------------------------------------------------- the state
VARIABLES
    entry,        \* what is used: "gateway", "server", "middleware", "replay",
                  \* "registry", "client", "orchestrator", "batch"
    modeArg,      \* what the caller (or the environment) said about the mode
    config,       \* X402CREPaymentGateway.config
    mwConfig,     \* the verifier config built by requireX402Payment
    workflows,    \* CREWorkflowRegistry.workflows
    regs,         \* the registerWorkflow calls so far, in order
    clock,        \* Date.now() in seconds
    call,         \* the gateway.invoke call in progress or last returned
    mw,           \* the last request handled by the middleware
    custom,       \* the workflows argument of new CREWorkflowRegistry(workflows)
    exec,         \* the registry.execute call made directly on the registry
    task,         \* the gateway.orchestrateAgentTask call in progress or settled
    orch,         \* the WorkflowOrchestrator.orchestrate run in progress or settled
    client,       \* the AgentClient: its config, its cache, its invocations
    runs          \* the orchestrate runs of a batchOrchestrate call

vars == <<entry, modeArg, config, mwConfig, workflows, regs, clock, call, mw,
          custom, exec, task, orch, client, runs>>

NoPayment == Returned(FALSE, NoAmount, EmptyString, EmptyString, "none")
NoResult == [allowed |-> FALSE, error |-> "none", workflowResult |-> Absent,
             pricePaid |-> Absent]
Idle ==
    [pc |-> "idle", workflowName |-> "custom-wf", payload |-> "no-data",
     proof |-> Wire("empty", Absent), requiredPrice |-> 0, at |-> 0,
     payment |-> NoPayment, events |-> <<>>, executed |-> Absent,
     result |-> NoResult]

NoRequest == [state |-> "none", proof |-> Wire("empty", Absent), at |-> 0,
              verification |-> NoPayment, status |-> 0, nextCalls |-> 0,
              locals |-> Absent]

NoRequestYet == [requestId |-> "none", workflowName |-> "custom-wf", payload |-> "no-data"]
NoExec == [pc |-> "idle", request |-> NoRequestYet, workflow |-> Absent,
           available |-> {}, outcome |-> Absent]
NoTask ==
    [pc |-> "idle", request |-> [task |-> <<>>, params |-> Absent],
     workflowName |-> "agent-task-dispatch", invoked |-> <<>>,
     result |-> Absent, error |-> "none"]

\* A JSON object is its fields, a function from keys to values.
Obj(fields) == [k |-> "obj", fields |-> fields]
NoFields == [key \in {} |-> Absent]

NoOrch ==
    [pc |-> "idle", workflowChain |-> <<>>, config |-> Absent, steps |-> <<>>,
     continueOnFailure |-> FALSE, transformer |-> Absent, i |-> 0,
     stepResults |-> <<>>, currentPayload |-> Obj(NoFields), totalSpentUSDC |-> 0,
     lastSuccessResult |-> Absent, hasFailure |-> FALSE,
     calls |-> <<>>, transforms |-> <<>>, result |-> Absent, rejection |-> Absent]

\* An AgentClient nobody has constructed, and no batchOrchestrate call.
NoClient ==
    [config |-> Absent, walletSigner |-> FALSE, cachedWorkflows |-> Null,
     inv |-> <<>>, fetched |-> 0, batch |-> Absent]

NoRuns == [pc |-> "idle", chains |-> <<>>, run |-> <<>>, result |-> Absent]

GatewayArgs ==
    { [recipientAddress |-> RECIPIENT, defaultPriceUSDC |-> d, simulationMode |-> m] :
        d \in {Absent},
        m \in {Absent, Undefined, Flag(TRUE), Flag(FALSE)} }
    \cup
    { [recipientAddress |-> RECIPIENT, defaultPriceUSDC |-> d, simulationMode |-> Flag(TRUE)] :
        d \in {Undefined, Int_(10005)} }

Init ==
    /\ entry \in {"gateway", "server", "middleware"}
    /\ \/ /\ entry = "gateway"
          /\ \E arg \in GatewayArgs :
                /\ modeArg = arg.simulationMode
                /\ config = GatewayConfig(arg)
          /\ mwConfig = VerifierConfig(RECIPIENT, 10000, Flag(TRUE))
       \/ /\ entry = "server"
          /\ \E env \in {"unset", "true", "false"} :
                /\ modeArg = IF env = "unset" THEN Absent ELSE Flag(env = "true")
                /\ config = GatewayConfig(
                       [recipientAddress |-> RECIPIENT, defaultPriceUSDC |-> Absent,
                        simulationMode |-> Flag(ServerSimulationMode(env))])
          /\ mwConfig = VerifierConfig(RECIPIENT, 10000, Flag(TRUE))
       \/ /\ entry = "middleware"
          /\ \E m \in {Absent, Undefined, Flag(TRUE), Flag(FALSE)} :
                /\ modeArg = m
                /\ mwConfig = VerifierConfig(RECIPIENT, 10000, MiddlewareSimulationMode(m))
          /\ config = GatewayConfig(
                 [recipientAddress |-> RECIPIENT, defaultPriceUSDC |-> Absent,
                  simulationMode |-> Absent])
    /\ workflows = BUILT_IN_WORKFLOWS
    /\ regs = <<>>
    /\ clock = 0
    /\ call = Idle
    /\ mw = NoRequest
    /\ custom = Absent
    /\ exec = NoExec
    /\ task = NoTask
    /\ orch = NoOrch
    /\ client = NoClient
    /\ runs = NoRuns

\* ------------------------------------------------------------------ clock
Tick ==
    /\ clock < MaxTime
    /\ clock' = clock + 1
    /\ UNCHANGED <<client, runs, entry, modeArg, config, mwConfig, workflows, regs, call, mw,
                 custom, exec, task, orch>>

\* ------------------------------------------------------- registerWorkflow
Registrable ==
    { [name |-> "custom-wf", def |-> Workflow(10005, "returns")],
      [name |-> "price-feed", def |-> Workflow(20000, "throws")] }

registerWorkflow(w) ==
    /\ Len(regs) < MaxRegs
    /\ workflows' = MapSet(workflows, w)
    /\ regs' = Append(regs, w)
    /\ UNCHANGED <<client, runs, entry, modeArg, config, mwConfig, clock, call, mw,
                 custom, exec, task, orch>>

\* ------------------------------------------------------- gateway.invoke
\* Lines 72-84: the price lookup, then verifier.verify(paymentProof) runs up
\* to its result (it reads the clock on the way); invoke awaits it.
InvokeCall(workflowName, payload, paymentProof) ==
    LET workflow == getWorkflow(workflows, workflowName)
        requiredPrice == RequiredPrice(workflow, config)
        verifier == VerifierConfig(config.recipientAddress, requiredPrice,
                                   config.simulationMode)
    IN  [Idle EXCEPT
           !.pc = "verifying",
           !.workflowName = workflowName,
           !.payload = payload,
           !.proof = paymentProof,
           !.requiredPrice = requiredPrice,
           !.at = clock,
           !.payment = verify(paymentProof, verifier, clock),
           !.events = <<"verify">>]

InvokeStart(workflowName, payload, paymentProof) ==
    /\ entry \in {"gateway", "server"}
    /\ call.pc = "idle"
    /\ task.pc = "idle"
    /\ call' = InvokeCall(workflowName, payload, paymentProof)
    /\ UNCHANGED <<client, runs, entry, modeArg, config, mwConfig, workflows, regs, clock, mw,
                   custom, exec, task, orch>>

Denial(payment) ==
    [allowed |-> FALSE,
     error |-> IF payment.error = "none" THEN "verification-failed" ELSE payment.error,
     workflowResult |-> Absent,
     pricePaid |-> Absent]

GateOpen_Always(payment) == payment.kind = "returned"

GateOpen(payment) == payment.kind = "returned" /\ payment.valid

\* Lines 85-104: verification has settled; deny, or build the request and call
\* registry.execute.
InvokeVerified ==
    /\ call.pc = "verifying"
    /\ IF call.payment.kind = "threw"
       THEN call' = [call EXCEPT !.pc = "rejected",
                                 !.events = Append(@, "reject")]
       ELSE IF ~GateOpen(call.payment)
       THEN call' = [call EXCEPT !.pc = "returned",
                                 !.result = Denial(call.payment),
                                 !.events = Append(@, "deny")]
       ELSE call' = [call EXCEPT
                       !.pc = "executing",
                       !.executed = getWorkflow(workflows, call.workflowName),
                       !.events = Append(@, "execute")]
    /\ UNCHANGED <<client, runs, entry, modeArg, config, mwConfig, workflows, regs, clock, mw,
                 custom, exec, task, orch>>

WorkflowResultOf_NotFoundSucceeds(workflow, payload) ==
    IF workflow.k = "wf" /\ HandlerThrows(workflow, payload)
    THEN [k |-> "result", status |-> "failed", error |-> "handler-fault"]
    ELSE [k |-> "result", status |-> "success", error |-> "none"]

\* The WorkflowResult of registry.execute (lines 365-392 of the registry).
WorkflowResultOf(workflow, payload) ==
    IF workflow.k # "wf" THEN [k |-> "result", status |-> "failed", error |-> "not-found"]
    ELSE IF HandlerThrows(workflow, payload)
    THEN [k |-> "result", status |-> "failed", error |-> "handler-fault"]
    ELSE [k |-> "result", status |-> "success", error |-> "none"]

\* registry.execute, whole: the WorkflowResult it resolves with, or the
\* rejection when reading the message of the caught value throws.
Keys(registry) == {n \in DOMAIN registry : registry[n].k = "wf"}

NotFoundMessage(name, available) ==
    [k |-> "msg", text |-> "Workflow not found", workflowName |-> name,
     available |-> available]

WorkflowResult(request, status, error, result) ==
    [requestId |-> request.requestId, workflowName |-> request.workflowName,
     status |-> status, error |-> error, result |-> result]

ExecuteRejects(workflow, payload) ==
    /\ workflow.k = "wf"
    /\ HandlerThrows(workflow, payload)
    /\ MessageThrows(HandlerOutcome(workflow, payload).thrown)

execute(registry, request) ==
    LET workflow == getWorkflow(registry, request.workflowName)
        settled == WorkflowResultOf(workflow, request.payload)
    IN  IF workflow.k # "wf"
        THEN Resolved(WorkflowResult(request, settled.status,
                                     NotFoundMessage(request.workflowName, Keys(registry)),
                                     Absent))
        ELSE IF settled.status = "success"
        THEN Resolved(WorkflowResult(request, settled.status, Absent,
                                     HandlerOutcome(workflow, request.payload).value))
        ELSE IF ExecuteRejects(workflow, request.payload)
        THEN Rejected("TypeError")
        ELSE Resolved(WorkflowResult(request, settled.status,
                          MessageOf(HandlerOutcome(workflow, request.payload).thrown),
                          Absent))

PricePaid_AmountOfProof(c) == Int_(c.payment.amount * 10)

PricePaid(c) == Int_(c.requiredPrice)

\* Lines 104-112: registry.execute has settled.
InvokeReturn ==
    /\ call.pc = "executing"
    /\ IF ExecuteRejects(call.executed, call.payload)
       THEN call' = [call EXCEPT !.pc = "rejected",
                                 !.events = Append(@, "reject")]
       ELSE call' = [call EXCEPT
                  !.pc = "returned",
                  !.result = [allowed |-> TRUE, error |-> "none",
                              workflowResult |-> WorkflowResultOf(call.executed, call.payload),
                              pricePaid |-> PricePaid(call)],
                  !.events = Append(@, "return")]
    /\ UNCHANGED <<client, runs, entry, modeArg, config, mwConfig, workflows, regs, clock, mw,
                 custom, exec, task, orch>>

\* The caller drops the result; the gateway keeps nothing of a finished call.
Discard ==
    /\ call.pc \in {"returned", "rejected"}
    /\ task.pc = "idle"
    /\ call' = Idle
    /\ UNCHANGED <<client, runs, entry, modeArg, config, mwConfig, workflows, regs, clock, mw,
                 custom, exec, task, orch>>

\* ------------------------------------------------- requireX402Payment
\* The middleware returned by requireX402Payment, for one request.
MiddlewareHandle(paymentProof) ==
    /\ entry = "middleware"
    /\ LET verification == verify(paymentProof, mwConfig, clock)
       IN  mw' = IF verification.kind = "threw"
                 THEN [NoRequest EXCEPT !.state = "rejected", !.proof = paymentProof,
                                        !.at = clock, !.verification = verification]
                 ELSE IF ~verification.valid
                 THEN [NoRequest EXCEPT !.state = "responded", !.proof = paymentProof,
                                        !.at = clock, !.verification = verification,
                                        !.status = 402]
                 ELSE [NoRequest EXCEPT !.state = "passed", !.proof = paymentProof,
                                        !.at = clock, !.verification = verification,
                                        !.nextCalls = 1,
                                        !.locals = [k |-> "payment", valid |-> TRUE,
                                                    amount |-> verification.amount,
                                                    recipient |-> verification.recipient,
                                                    payer |-> verification.payer]]
    /\ UNCHANGED <<client, runs, entry, modeArg, config, mwConfig, workflows, regs, clock, call,
                 custom, exec, task, orch>>

Next ==
    \/ Tick
    \/ \E w \in Registrable : registerWorkflow(w)
    \/ \E n \in InvokedNames, p \in Payloads, w \in Proofs : InvokeStart(n, p, w)
    \/ InvokeVerified
    \/ InvokeReturn
    \/ Discard
    \/ \E w \in Proofs : MiddlewareHandle(w)

Spec == Init /\ [][Next]_vars

\* ================================================ a proof presented again
\* A caller of gateway.invoke that presents the proof of the call that has
\* returned once more, for the same workflow and payload; meanwhile the clock
\* runs and workflows are registered.
ReplayInit ==
    /\ entry = "replay"
    /\ \E arg \in GatewayArgs :
          /\ modeArg = arg.simulationMode
          /\ config = GatewayConfig(arg)
    /\ mwConfig = VerifierConfig(RECIPIENT, 10000, Flag(TRUE))
    /\ workflows = BUILT_IN_WORKFLOWS
    /\ regs = <<>>
    /\ clock = 0
    /\ call = Idle
    /\ mw = NoRequest
    /\ custom = Absent
    /\ exec = NoExec
    /\ task = NoTask
    /\ orch = NoOrch
    /\ client = NoClient
    /\ runs = NoRuns

\* A workflow whose price a registration changes, and one that is unknown
\* until it is registered.
ReplayNames == {"price-feed", "custom-wf"}

Presents(workflowName, payload, paymentProof) ==
    /\ entry = "replay"
    /\ call.pc = "idle"
    /\ call' = InvokeCall(workflowName, payload, paymentProof)
    /\ UNCHANGED <<client, runs, entry, modeArg, config, mwConfig, workflows, regs, clock, mw,
                   custom, exec, task, orch>>

\* The events of the earlier calls are kept for the record; the gateway has
\* nothing of them.
PresentsAgain ==
    /\ entry = "replay"
    /\ call.pc = "returned"
    /\ Cardinality({i \in DOMAIN call.events : call.events[i] = "verify"})
          < MaxPresentations
    /\ call' = [InvokeCall(call.workflowName, call.payload, call.proof) EXCEPT
                  !.events = call.events \o @]
    /\ UNCHANGED <<client, runs, entry, modeArg, config, mwConfig, workflows, regs, clock, mw,
                   custom, exec, task, orch>>

ReplayNext ==
    \/ Tick
    \/ \E w \in Registrable : registerWorkflow(w)
    \/ \E n \in ReplayNames, w \in Proofs : Presents(n, "data", w)
    \/ PresentsAgain
    \/ InvokeVerified
    \/ InvokeReturn

ReplaySpec == ReplayInit /\ [][ReplayNext]_vars

\* ============================================== the registry used directly
\* A CREWorkflowRegistry built with a list of the caller's definitions, then
\* extended with registerWorkflow and asked to execute requests.
RegistryDefinitions ==
    { [name |-> "custom-wf", def |-> Workflow(10005, "returns")],
      [name |-> "custom-wf", def |-> Workflow(30000, "throws-string")],
      [name |-> "custom-wf", def |-> Workflow(30000, "throws-null")],
      [name |-> "price-feed", def |-> Workflow(20000, "throws")],
      [name |-> "compute-task", def |-> Workflow(20000, "returns")] }

CustomLists ==
    {Absent, WorkflowList(<<>>)}
    \cup {WorkflowList(<<a>>) : a \in RegistryDefinitions}
    \cup {WorkflowList(<<a, b>>) :
             a, b \in {d \in RegistryDefinitions : d.name = "custom-wf"}}

Requests ==
    { [requestId |-> id, workflowName |-> n, payload |-> p] :
        id \in {"req-1", "req-2"}, n \in InvokedNames, p \in Payloads }

RegistryInit ==
    /\ entry = "registry"
    /\ modeArg = Absent
    /\ config = GatewayConfig([recipientAddress |-> RECIPIENT,
                               defaultPriceUSDC |-> Absent, simulationMode |-> Absent])
    /\ mwConfig = VerifierConfig(RECIPIENT, 10000, Flag(TRUE))
    /\ custom \in CustomLists
    /\ workflows = NewRegistry(custom)
    /\ regs = <<>>
    /\ clock = 0
    /\ call = Idle
    /\ mw = NoRequest
    /\ exec = NoExec
    /\ task = NoTask
    /\ orch = NoOrch
    /\ client = NoClient
    /\ runs = NoRuns

\* registry.execute(request), from the lookup to the settled promise. The
\* handler is the one found at the lookup whatever is registered meanwhile.
Execute(request) ==
    /\ entry = "registry"
    /\ exec' = [pc |-> "settled", request |-> request,
                workflow |-> getWorkflow(workflows, request.workflowName),
                available |-> Keys(workflows),
                outcome |-> execute(workflows, request)]
    /\ UNCHANGED <<client, runs, entry, modeArg, config, mwConfig, workflows, regs, clock, call, mw,
                   custom, task, orch>>

RegistryNext ==
    \/ \E w \in RegistryDefinitions : registerWorkflow(w)
    \/ \E request \in Requests : Execute(request)

RegistrySpec == RegistryInit /\ [][RegistryNext]_vars

\* =================================================== orchestrateAgentTask
TaskTexts ==
    { <<"E", "T", "H", " ", "P", "r", "i", "c", "e">>,
      <<"T", "O", "K", "E", "N", " ", "w", "e", "a", "t", "h", "e", "r">>,
      <<"W", "e", "a", "t", "h", "e", "r", " ", "c", "o", "m", "p", "u", "t", "e">>,
      <<"c", "a", "l", "c", "u", "l", "a", "t", "e">>,
      <<"C", "o", "m", "p", "u", "t", "e">>,
      <<"h", "e", "l", "l", "o">>,
      <<>>,
      <<"c", "o", "m", "p", "u", "t", "e", " ", "p", "r", "i", "c", "e">>,
      <<"g", "e", "t", " ", "p", "r", "i", "c">>,
      <<"r", "e", "C", "A", "L", "C", "U", "L", "A", "T", "E", "d">> }

TaskRequests ==
    { [task |-> t, params |-> p] : t \in TaskTexts, p \in {Absent, Params("data")} }

TaskProofs ==
    { Wire("empty", Absent),
      Wire("base64", Document(Absent, Absent, Str(RecipientLower), Int_(1000000), Str(PAYER))),
      Wire("base64", Document(Absent, Absent, Str(RecipientLower), Int_(1000), Str(PAYER))),
      Wire("base64", Document(Absent, Absent, Str(OtherRecipient), Int_(1000000), Str(PAYER))),
      Wire("base64", Document(Int_(1), Null, Absent, Absent, Absent)),
      RealProof(Str(RecipientLower), Int_(100000), Int_(1), Int_(2), "self"),
      createPaymentProof(PAYER, RECIPIENT, 100000, 0) }

TaskRegistrable ==
    { [name |-> "price-feed", def |-> Workflow(20000, "throws")],
      [name |-> "weather-oracle", def |-> Workflow(50000, "throws-null")] }

TaskInit ==
    /\ entry = "gateway"
    /\ \E arg \in {a \in GatewayArgs : a.defaultPriceUSDC = Absent
                                         /\ a.simulationMode \in {Absent, Flag(FALSE)}} :
          /\ modeArg = arg.simulationMode
          /\ config = GatewayConfig(arg)
    /\ mwConfig = VerifierConfig(RECIPIENT, 10000, Flag(TRUE))
    /\ custom = Absent
    /\ workflows = NewRegistry(custom)
    /\ regs = <<>>
    /\ clock = 0
    /\ call = Idle
    /\ mw = NoRequest
    /\ exec = NoExec
    /\ task = NoTask
    /\ orch = NoOrch
    /\ client = NoClient
    /\ runs = NoRuns

\* Lines 123-138: the routing, then this.invoke(...) is called and awaited.
orchestrateAgentTask(request, paymentProof) ==
    /\ entry = "gateway"
    /\ task.pc = "idle"
    /\ call.pc = "idle"
    /\ LET workflowName == RouteTask(request.task)
       IN  /\ call' = InvokeCall(workflowName, TaskPayload(request), paymentProof)
           /\ task' = [NoTask EXCEPT !.pc = "awaiting",
                                     !.request = request,
                                     !.workflowName = workflowName,
                                     !.invoked = <<workflowName>>]
    /\ UNCHANGED <<client, runs, entry, modeArg, config, mwConfig, workflows, regs, clock, mw,
                   custom, exec, orch>>

\* Lines 140-155: invoke has settled. A rejection of invoke passes through
\* the await; a denial is thrown as an Error; otherwise the result is built.
TaskSettle ==
    /\ task.pc = "awaiting"
    /\ call.pc \in {"returned", "rejected"}
    /\ task' =
          IF call.pc = "rejected"
          THEN [task EXCEPT !.pc = "rejected", !.error = "invoke-rejected"]
          ELSE IF call.result.allowed /\ call.result.workflowResult.k # "absent"
          THEN [task EXCEPT
                  !.pc = "resolved",
                  !.result = [k |-> "obj",
                              workflowsInvoked |-> <<task.workflowName>>,
                              totalSpentUSDC |-> Coalesce(call.result.pricePaid, Int_(0)).n,
                              result |-> call.result.workflowResult,
                              paymentGated |-> TRUE]]
          ELSE [task EXCEPT
                  !.pc = "rejected",
                  !.error = IF call.result.error = "none"
                            THEN "Gateway denied request" ELSE call.result.error]
    /\ UNCHANGED <<client, runs, entry, modeArg, config, mwConfig, workflows, regs, clock, call, mw,
                   custom, exec, orch>>

TaskNext ==
    \/ Tick
    \/ \E w \in TaskRegistrable : registerWorkflow(w)
    \/ \E request \in TaskRequests, w \in TaskProofs : orchestrateAgentTask(request, w)
    \/ InvokeVerified
    \/ InvokeReturn
    \/ TaskSettle

TaskSpec == TaskInit /\ [][TaskNext]_vars

\* ================================================== WorkflowOrchestrator
ArrayValue == [k |-> "arr"]

\* A chain item is a workflow name or an OrchestrationStep.
Name(workflowName) == [k |-> "name", workflowName |-> workflowName]
OrchestrationStep(workflowName, payload) ==
    [k |-> "step", workflowName |-> workflowName, payload |-> payload]

normalizeChain(chain) ==
    [n \in DOMAIN chain |->
        IF chain[n].k = "name"
        THEN OrchestrationStep(chain[n].workflowName, Absent)
        ELSE chain[n]]

defaultTransformer_NoMerge(stepResult, nextWorkflow, stepIndex) ==
    Obj("previousResult" :> stepResult)

defaultTransformer(stepResult, nextWorkflow, stepIndex) ==
    IF stepResult.k = "obj"
    THEN Obj(("previousResult" :> stepResult) @@ stepResult.fields)
    ELSE Obj("previousResult" :> stepResult)

\* A transformer the caller passes: one that builds a payload from its three
\* arguments, one that throws an Error, one that throws null.
Transformer(does) == [k |-> "fn", does |-> does]

\* transformer(invokeResult.result, steps[i + 1].workflowName, i), with
\* transformer = config.payloadTransformer ?? defaultTransformer
Transform(payloadTransformer, stepResult, nextWorkflow, stepIndex) ==
    IF Nullish(payloadTransformer)
    THEN [k |-> "returned",
          value |-> defaultTransformer(stepResult, nextWorkflow, stepIndex)]
    ELSE CASE payloadTransformer.does = "custom" ->
                [k |-> "returned",
                 value |-> Obj(("transformed" :> Flag(TRUE)) @@ ("data" :> stepResult)
                               @@ ("next" :> Value(nextWorkflow))
                               @@ ("index" :> Int_(stepIndex)))]
           [] payloadTransformer.does = "throws" ->
                [k |-> "threw", thrown |-> ErrorValue("cannot transform")]
           [] OTHER -> [k |-> "threw", thrown |-> Null]

StepResult(step, stepIndex, status, result, error, paymentProof, spentUSDC) ==
    [workflowName |-> step.workflowName, stepIndex |-> stepIndex, status |-> status,
     result |-> result, error |-> error, paymentProof |-> paymentProof,
     spentUSDC |-> spentUSDC]

ShouldSkip_IgnoresPolicy(o) == o.hasFailure

ShouldSkip_Never(o) == FALSE

\* Line 183: if (hasFailure && !continueOnFailure)
ShouldSkip(o) == o.hasFailure /\ ~o.continueOnFailure

\* Line 193: step.payload ?? currentPayload
StepPayload(step, currentPayload) == Coalesce(step.payload, currentPayload)

CountStatus(stepResults, status) ==
    Cardinality({n \in DOMAIN stepResults : stepResults[n].status = status})

FinalStatus_PartialWithoutPolicy(stepResults, continueOnFailure) ==
    IF CountStatus(stepResults, "failed") = 0 THEN "completed"
    ELSE IF CountStatus(stepResults, "success") > 0 THEN "partial"
    ELSE "failed"

\* Lines 257-270.
FinalStatus(stepResults, continueOnFailure) ==
    IF CountStatus(stepResults, "failed") = 0 THEN "completed"
    ELSE IF continueOnFailure /\ CountStatus(stepResults, "success") > 0 THEN "partial"
    ELSE "failed"

OrchestrationResult_CountsSuccesses(o) ==
    [workflowChain |-> [n \in DOMAIN o.steps |-> o.steps[n].workflowName],
     steps |-> o.stepResults,
     finalResult |-> o.lastSuccessResult,
     totalSpentUSDC |-> o.totalSpentUSDC,
     stepsCompleted |-> CountStatus(o.stepResults, "success"),
     status |-> FinalStatus(o.stepResults, o.continueOnFailure)]

\* Lines 274-284.
OrchestrationResult(o) ==
    [workflowChain |-> [n \in DOMAIN o.steps |-> o.steps[n].workflowName],
     steps |-> o.stepResults,
     finalResult |-> o.lastSuccessResult,
     totalSpentUSDC |-> o.totalSpentUSDC,
     stepsCompleted |-> Len(o.stepResults) - CountStatus(o.stepResults, "skipped"),
     status |-> FinalStatus(o.stepResults, o.continueOnFailure)]

\* The loop of lines 178-255 from step o.i up to the next await of
\* client.invoke, or past the last step to the return.
RECURSIVE RunLoop(_)
RunLoop(o) ==
    IF o.i >= Len(o.steps)
    THEN [o EXCEPT !.pc = "resolved", !.result = OrchestrationResult(o)]
    ELSE LET step == o.steps[o.i + 1]
         IN  IF ShouldSkip(o)
             THEN RunLoop([o EXCEPT
                             !.stepResults = Append(@, StepResult(step, o.i, "skipped",
                                                 Absent, Absent, Absent, Absent)),
                             !.i = @ + 1])
             ELSE [o EXCEPT
                     !.pc = "awaiting",
                     !.calls = Append(@, [workflowName |-> step.workflowName,
                                          payload |-> StepPayload(step, o.currentPayload),
                                          stepIndex |-> o.i])]

\* ------------------------------------------------------------- the inputs
ChainItems ==
    { Name("price-feed"),
      OrchestrationStep("compute-task", Obj("data" :> ArrayValue)) }

RECURSIVE Chains(_)
Chains(n) ==
    IF n = 0 THEN {<<>>}
    ELSE Chains(n - 1)
         \cup {Append(c, item) : c \in {d \in Chains(n - 1) : Len(d) = n - 1},
                                 item \in ChainItems}

OrchestrationConfigs ==
    { [continueOnFailure |-> c, initialPayload |-> p, payloadTransformer |-> t] :
        c \in {Absent, Flag(TRUE), Flag(FALSE)},
        p \in {Absent, Obj("pair" :> Value("ETH/USD"))},
        t \in {Absent, Transformer("custom"), Transformer("throws"),
               Transformer("throws-null")} }

AgentInvokeResult(success, result, meta, error) ==
    [success |-> success, result |-> result, meta |-> meta, error |-> error,
     paymentUsed |-> IF success \/ error # Absent THEN Value("mock-proof") ELSE Absent]

Meta(pricePaid) == [k |-> "obj", pricePaid |-> pricePaid]

\* What client.invoke settles with: a result, or a rejection with one of the
\* Errors AgentClient.invoke throws or lets through (fetch, discovery, no
\* recipient).
ClientOutcomes ==
    { Resolved(AgentInvokeResult(TRUE,
                   Obj(("price" :> Int_(2847)) @@ ("previousResult" :> Value("stale"))),
                   Meta(Int_(10000)), Absent)),
      Resolved(AgentInvokeResult(TRUE, ArrayValue, Absent, Absent)),
      Resolved(AgentInvokeResult(TRUE, Null, Meta(Int_(50000)), Absent)),
      Resolved(AgentInvokeResult(FALSE, Absent, Absent, Message("Payment required"))),
      Resolved(AgentInvokeResult(FALSE, Absent, Absent, Absent)),
      Rejected(ErrorValue("Connection refused")),
      Rejected(ErrorValue("No recipient address available")) }

OrchInit ==
    /\ entry = "orchestrator"
    /\ modeArg = Absent
    /\ config = GatewayConfig([recipientAddress |-> RECIPIENT,
                               defaultPriceUSDC |-> Absent, simulationMode |-> Absent])
    /\ mwConfig = VerifierConfig(RECIPIENT, 10000, Flag(TRUE))
    /\ custom = Absent
    /\ workflows = NewRegistry(custom)
    /\ regs = <<>>
    /\ clock = 0
    /\ call = Idle
    /\ mw = NoRequest
    /\ exec = NoExec
    /\ task = NoTask
    /\ orch = NoOrch
    /\ client = NoClient
    /\ runs = NoRuns

\* Lines 164-176 of orchestrate, then the loop up to the first client.invoke.
Started(workflowChain, orchestrationConfig) ==
    RunLoop([NoOrch EXCEPT
               !.workflowChain = workflowChain,
               !.config = orchestrationConfig,
               !.steps = normalizeChain(workflowChain),
               !.continueOnFailure =
                   Coalesce(orchestrationConfig.continueOnFailure, Flag(FALSE)).b,
               !.transformer = orchestrationConfig.payloadTransformer,
               !.currentPayload =
                   Coalesce(orchestrationConfig.initialPayload, Obj(NoFields))])

\* orchestrate(workflowChain, config).
orchestrate(workflowChain, orchestrationConfig) ==
    /\ entry = "orchestrator"
    /\ orch.pc = "idle"
    /\ orch' = Started(workflowChain, orchestrationConfig)
    /\ UNCHANGED <<client, runs, entry, modeArg, config, mwConfig, workflows, regs, clock, call, mw,
                   custom, exec, task>>

\* The TypeError of reading .message of null or undefined in a catch block.
TypeErrorIn(catchOf, stepIndex) ==
    [k |-> "TypeError", catchOf |-> catchOf, stepIndex |-> stepIndex]

AfterRejection_FlagUnset(o, reason) ==
    RunLoop([o EXCEPT
               !.stepResults = Append(@, StepResult(o.steps[o.i + 1], o.i, "failed",
                                   Absent, MessageOf(reason), Absent, Absent)),
               !.i = @ + 1])

\* Lines 198-209: client.invoke rejected.
AfterRejection(o, reason) ==
    IF MessageThrows(reason)
    THEN [o EXCEPT !.pc = "rejected", !.rejection = TypeErrorIn("invoke", o.i)]
    ELSE RunLoop([o EXCEPT
                    !.hasFailure = TRUE,
                    !.stepResults = Append(@, StepResult(o.steps[o.i + 1], o.i, "failed",
                                        Absent, MessageOf(reason), Absent, Absent)),
                    !.i = @ + 1])

AfterFailure_ForwardsError(o, invokeResult) ==
    RunLoop([o EXCEPT
               !.hasFailure = TRUE,
               !.currentPayload = Obj("previousError" :> Value("failed")),
               !.stepResults = Append(@, StepResult(o.steps[o.i + 1], o.i, "failed",
                                   Absent,
                                   Coalesce(invokeResult.error,
                                            Message("Workflow invocation failed")),
                                   invokeResult.paymentUsed, Absent)),
               !.i = @ + 1])

AfterFailure_Unrecorded(o, invokeResult) ==
    RunLoop([o EXCEPT !.hasFailure = TRUE, !.i = @ + 1])

\* Lines 213-224: the result says success: false.
AfterFailure(o, invokeResult) ==
    RunLoop([o EXCEPT
               !.hasFailure = TRUE,
               !.stepResults = Append(@, StepResult(o.steps[o.i + 1], o.i, "failed",
                                   Absent,
                                   Coalesce(invokeResult.error,
                                            Message("Workflow invocation failed")),
                                   invokeResult.paymentUsed, Absent)),
               !.i = @ + 1])

\* Lines 226-254: the step succeeded; the payload of the next step is prepared.
AfterSuccess(o, invokeResult) ==
    LET pricePaid ==
            Coalesce(IF Nullish(invokeResult.meta) THEN Absent
                     ELSE invokeResult.meta.pricePaid, Int_(0)).n
        recorded ==
            [o EXCEPT
               !.totalSpentUSDC = @ + pricePaid,
               !.lastSuccessResult = invokeResult.result,
               !.stepResults = Append(@, StepResult(o.steps[o.i + 1], o.i, "success",
                                   invokeResult.result, Absent,
                                   invokeResult.paymentUsed, Int_(pricePaid)))]
    IN  IF o.i < Len(o.steps) - 1
        THEN LET next == o.steps[o.i + 2].workflowName
                 made == Transform(o.transformer, invokeResult.result, next, o.i)
                 called == [recorded EXCEPT
                              !.transforms = Append(@, [stepResult |-> invokeResult.result,
                                                        nextWorkflow |-> next,
                                                        stepIndex |-> o.i])]
             IN  IF made.k = "returned"
                 THEN RunLoop([called EXCEPT !.currentPayload = made.value,
                                             !.i = @ + 1])
                 ELSE IF MessageThrows(made.thrown)
                 THEN [called EXCEPT !.pc = "rejected",
                                     !.rejection = TypeErrorIn("transformer", o.i)]
                 ELSE RunLoop([called EXCEPT
                                 !.hasFailure = TRUE,
                                 !.stepResults[Len(recorded.stepResults)] =
                                     [@ EXCEPT
                                        !.status = "failed",
                                        !.error = [k |-> "msg",
                                                   text |-> "Payload transformer error",
                                                   cause |-> MessageOf(made.thrown)]],
                                 !.i = @ + 1])
        ELSE RunLoop([recorded EXCEPT !.i = @ + 1])

\* Lines 196-254: the run o has the outcome of its client.invoke and runs on
\* to its next await or its end.
Resumed(o, outcome) ==
    IF outcome.k = "rejected" THEN AfterRejection(o, outcome.reason)
    ELSE IF ~outcome.value.success THEN AfterFailure(o, outcome.value)
    ELSE AfterSuccess(o, outcome.value)

\* client.invoke settles and orchestrate runs on to its next await or its end.
ClientInvokeSettles(outcome) ==
    /\ orch.pc = "awaiting"
    /\ orch' = Resumed(orch, outcome)
    /\ UNCHANGED <<client, runs, entry, modeArg, config, mwConfig, workflows, regs, clock, call, mw,
                   custom, exec, task>>

OrchNext ==
    \/ \E chain \in Chains(MaxSteps), c \in OrchestrationConfigs : orchestrate(chain, c)
    \/ \E outcome \in ClientOutcomes : ClientInvokeSettles(outcome)

OrchSpec == OrchInit /\ [][OrchNext]_vars

\* ============================================================ HTTP gateway
\* res.status(status).json(body): keys the route does not write are absent.
\* `required` holds the payment instructions of a 402.
Reply(status, error, message, required, result, meta) ==
    [status |-> status, ok |-> status \in 200..299,
     body |-> [k |-> "obj", error |-> error, message |-> message,
               required |-> required, result |-> result, meta |-> meta]]

\* POST /invoke/:workflow for a gateway.invoke call c that has settled, with
\* the registry as it is when the response is written.  A rejection goes to
\* next(err) and the error handler.
InvokeRoute(c, registry) ==
    IF c.pc = "rejected"
    THEN Reply(500, Value("Internal server error"), Value("TypeError"),
               Absent, Absent, Absent)
    ELSE IF ~c.result.allowed
    THEN Reply(402, Value("Payment Required"), Value(c.result.error),
               [k |-> "obj",
                amount |-> IF getWorkflow(registry, c.workflowName).k = "wf"
                           THEN Int_(getWorkflow(registry, c.workflowName).priceUSDC)
                           ELSE Int_(10000),
                recipient |-> Str(RECIPIENT),
                network |-> Value("base-sepolia"),
                resource |-> Absent],
               Absent, Absent)
    ELSE Reply(200, Absent, Absent, Absent,
               IF c.result.workflowResult.status = "success"
               THEN HandlerOutcome(c.executed, c.payload).value ELSE Absent,
               Meta(c.result.pricePaid))

\* POST /agent/task for an orchestrateAgentTask call t that has settled.
TaskRoute(t) ==
    IF t.request.task = <<>>
    THEN Reply(400, Value("Missing 'task' field in request body"), Absent,
               Absent, Absent, Absent)
    ELSE IF t.pc = "rejected"
    THEN Reply(500, Value("Internal server error"), Value(t.error),
               Absent, Absent, Absent)
    ELSE Reply(200, Absent, Absent, Absent, t.result.result,
               [k |-> "obj", totalSpentUSDC |-> Int_(t.result.totalSpentUSDC)])

\* The 402 of requireX402Payment(config) for a request m whose verification
\* is invalid (lines 73-98).
PaymentRequired(m, middlewareConfig) ==
    Reply(402, Value("Payment Required"),
          Value(IF m.verification.error = "none"
                THEN "Valid x402 payment proof required" ELSE m.verification.error),
          [k |-> "obj",
           amount |-> Int_(RoundToMicro(middlewareConfig.requiredAmountUSDC)),
           recipient |-> Str(middlewareConfig.recipientAddress),
           network |-> Value("base-sepolia"),
           resource |-> Value("req.originalUrl")],
          Absent, Absent)

\* ============================================================= AgentClient
InvokeResult_ErrorBeforeMessage(response, paymentProof) ==
    IF ~response.ok
    THEN [success |-> FALSE, result |-> Absent, meta |-> Absent,
          error |-> Coalesce(Coalesce(response.body.error, response.body.message),
                             [k |-> "msg", text |-> "HTTP", status |-> response.status]),
          paymentUsed |-> paymentProof]
    ELSE [success |-> TRUE, result |-> response.body.result,
          meta |-> response.body.meta, error |-> Absent,
          paymentUsed |-> paymentProof]

\* Lines 273-292 of invoke: what it resolves with for a response whose body
\* parsed, having sent paymentProof.
InvokeResult(response, paymentProof) ==
    IF ~response.ok
    THEN [success |-> FALSE, result |-> Absent, meta |-> Absent,
          error |-> Coalesce(Coalesce(response.body.message, response.body.error),
                             [k |-> "msg", text |-> "HTTP", status |-> response.status]),
          paymentUsed |-> paymentProof]
    ELSE [success |-> TRUE, result |-> response.body.result,
          meta |-> response.body.meta, error |-> Absent,
          paymentUsed |-> paymentProof]

\* new AgentClient(config): lines 134-151.  The wallet signer exists when the
\* mode is not simulation and there is a private key.
AgentClient(arg) ==
    LET simulationMode == SpreadOver(Flag(TRUE), arg.simulationMode)
    IN  [NoClient EXCEPT
           !.config = [recipientAddress |-> arg.recipientAddress,
                       simulationMode |-> simulationMode,
                       privateKey |-> arg.privateKey],
           !.walletSigner = ~simulationMode.b /\ ~Nullish(arg.privateKey)]

createMockPaymentProof(payer, recipient, amountUSDC) ==
    Wire("base64", Document(Absent, Absent, Str(recipient),
                            Int_(RoundToMicro(amountUSDC)), Str(payer)))

\* Without a signature argument the signature is random hexadecimal digits.
createRealX402Proof(fromAddress, toAddress, amountUSDC, now) ==
    Wire("base64",
         Document(Int_(1),
                  Payload(Junk, Authorization(Str(fromAddress), Str(toAddress),
                                              Int_(RoundToMicro(amountUSDC)),
                                              Int_(now - 60), Int_(now + 300))),
                  Absent, Absent, Absent))

\* Lines 191-212.
constructPaymentProofAsync(c, recipient, amountUSDC, now) ==
    IF c.config.simulationMode.b
    THEN createMockPaymentProof(PAYER, recipient, amountUSDC)
    ELSE IF c.walletSigner
    THEN createPaymentProof(PAYER, recipient, amountUSDC, now)
    ELSE createRealX402Proof(PAYER, recipient, amountUSDC, now)

\* An entry of the catalog served by GET /workflows.
WorkflowInfo(name, priceUSDC, recipient) ==
    [name |-> name, priceUSDC |-> priceUSDC, payment |-> [recipient |-> Str(recipient)]]

\* invoke (lines 249-271) and submitTask (lines 309-331) from the catalog
\* lookup to the POST: invocation n of client c looks up its price and
\* recipient, throws without a recipient, else builds the proof and sends.
Send(c, n, now) ==
    LET x == c.inv[n]
        lookedUp == IF x.via = "invoke" THEN x.workflowName ELSE "agent-task-dispatch"
        catalog == c.cachedWorkflows.items
        found == {i \in DOMAIN catalog : catalog[i].name = lookedUp}
        workflow == IF found = {} THEN Absent
                    ELSE catalog[CHOOSE i \in found : \A j \in found : i <= j]
        priceUSDC == IF workflow = Absent
                     THEN (IF x.via = "invoke" THEN 10000 ELSE 100000)
                     ELSE workflow.priceUSDC
        recipient == IF workflow = Absent
                     THEN Coalesce(c.config.recipientAddress, Str(EmptyString))
                     ELSE workflow.payment.recipient
    IN  IF recipient.a = EmptyString
        THEN [c EXCEPT !.inv[n].pc = "rejected",
                       !.inv[n].outcome =
                           Rejected(ErrorValue("No recipient address available"))]
        ELSE [c EXCEPT !.inv[n].pc = "fetching",
                       !.inv[n].proof =
                           constructPaymentProofAsync(c, recipient.a, priceUSDC, now)]

\* invoke (lines 245-247) and submitTask (lines 305-307) up to their first
\* await: with an empty cache discoverWorkflows starts its fetch.
Begin(c, via, workflowName, now) ==
    LET added == [c EXCEPT !.inv = Append(@, [via |-> via, workflowName |-> workflowName,
                                              pc |-> "discovering", proof |-> Absent,
                                              outcome |-> Absent])]
    IN  IF c.cachedWorkflows = Null
        THEN [added EXCEPT !.fetched = @ + 1]
        ELSE Send(added, Len(added.inv), now)

\* batch.map(({workflowName, payload}) => this.invoke(workflowName, payload))
RECURSIVE BeginAll(_, _, _)
BeginAll(c, batch, now) ==
    IF batch = <<>> THEN c
    ELSE BeginAll(Begin(c, "invoke", Head(batch).workflowName, now), Tail(batch), now)

BatchItem_FulfilledIsSuccess(batch, n, outcome) ==
    IF outcome.k = "resolved"
    THEN [workflowName |-> batch[n].workflowName, index |-> n - 1,
          status |-> "success", result |-> outcome.value, error |-> Absent]
    ELSE [workflowName |-> batch[n].workflowName, index |-> n - 1,
          status |-> "failed", result |-> Absent,
          error |-> IF Nullish(outcome.reason) THEN Message("Unknown error")
                    ELSE Coalesce(MessageOf(outcome.reason), Message("Unknown error"))]

\* Lines 409-438 of batchInvoke: the item for the settled outcome of request n.
BatchItem(batch, n, outcome) ==
    IF outcome.k = "resolved"
    THEN [workflowName |-> batch[n].workflowName, index |-> n - 1,
          status |-> IF outcome.value.success THEN "success" ELSE "failed",
          result |-> outcome.value,
          error |-> IF outcome.value.success THEN Absent
                    ELSE Coalesce(outcome.value.error,
                                  Message("Workflow returned failure"))]
    ELSE [workflowName |-> batch[n].workflowName, index |-> n - 1,
          status |-> "failed", result |-> Absent,
          error |-> IF Nullish(outcome.reason) THEN Message("Unknown error")
                    ELSE Coalesce(MessageOf(outcome.reason), Message("Unknown error"))]

\* Lines 409-448 of batchInvoke, from the settled outcomes of its invocations.
BatchResult(batch, settled) ==
    LET results == [n \in DOMAIN batch |-> BatchItem(batch, n, settled[n])]
        succeeded == Cardinality({n \in DOMAIN batch : results[n].status = "success"})
    IN  [totalRequested |-> Len(batch), succeeded |-> succeeded,
         failed |-> Len(batch) - succeeded, results |-> results]

\* ------------------------------------------------------------- the inputs
ClientArgs ==
    { [recipientAddress |-> Absent, simulationMode |-> Absent, privateKey |-> Absent],
      [recipientAddress |-> Str(RECIPIENT), simulationMode |-> Absent,
       privateKey |-> Absent],
      [recipientAddress |-> Str(RECIPIENT), simulationMode |-> Flag(FALSE),
       privateKey |-> Value("0xkey")],
      [recipientAddress |-> Absent, simulationMode |-> Flag(FALSE),
       privateKey |-> Absent] }

InvocationNames == {"price-feed", "unknown-wf"}

RECURSIVE Batches(_)
Batches(n) ==
    IF n = 0 THEN {<<>>}
    ELSE Batches(n - 1)
         \cup {Append(b, [workflowName |-> w, payload |-> Obj(NoFields)]) :
                 b \in {d \in Batches(n - 1) : Len(d) = n - 1}, w \in InvocationNames}

\* What the fetch of GET /workflows settles with: the catalog of the gateway
\* server, a catalog that advertises another recipient, an empty catalog, a
\* response that is not OK.
DiscoveryOutcomes ==
    { Resolved([ok |-> TRUE, workflows |-> WorkflowList(
                   <<WorkflowInfo("price-feed", 10000, RECIPIENT),
                     WorkflowInfo("agent-task-dispatch", 100000, RECIPIENT)>>)]),
      Resolved([ok |-> TRUE, workflows |-> WorkflowList(
                   <<WorkflowInfo("price-feed", 30000, OtherRecipient)>>)]),
      Resolved([ok |-> TRUE, workflows |-> WorkflowList(<<>>)]),
      Resolved([ok |-> FALSE, workflows |-> Absent]) }

\* What the fetch of a POST settles with.
FetchOutcomes ==
    { Resolved(Reply(200, Absent, Absent, Absent, Value("result"), Meta(Int_(10000)))),
      Resolved(Reply(402, Value("Payment Required"), Value("insufficient"),
                     Absent, Absent, Absent)),
      Resolved(Reply(500, Value("Internal server error"), Absent, Absent, Absent, Absent)),
      Resolved(Reply(503, Absent, Absent, Absent, Absent, Absent)),
      Rejected(ErrorValue("fetch failed")) }

ClientInit ==
    /\ entry = "client"
    /\ modeArg = Absent
    /\ config = GatewayConfig([recipientAddress |-> RECIPIENT,
                               defaultPriceUSDC |-> Absent, simulationMode |-> Absent])
    /\ mwConfig = VerifierConfig(RECIPIENT, 10000, Flag(TRUE))
    /\ custom = Absent
    /\ workflows = NewRegistry(custom)
    /\ regs = <<>>
    /\ clock = 0
    /\ call = Idle
    /\ mw = NoRequest
    /\ exec = NoExec
    /\ task = NoTask
    /\ orch = NoOrch
    /\ client \in {AgentClient(arg) : arg \in ClientArgs}
    /\ runs = NoRuns

\* ------------------------------------------------------------- the actions
\* The caller awaits a call before it makes the next one: the invocations
\* that run concurrently are those of a batchInvoke.
Settled(c) == \A n \in DOMAIN c.inv : c.inv[n].pc \in {"resolved", "rejected"}

Ready(c) == c.inv = <<>> /\ c.batch = Absent

invoke(workflowName) ==
    /\ entry = "client"
    /\ Ready(client)
    /\ client' = Begin(client, "invoke", workflowName, clock)
    /\ UNCHANGED <<entry, modeArg, config, mwConfig, workflows, regs, clock, call, mw,
                   custom, exec, task, orch, runs>>

submitTask ==
    /\ entry = "client"
    /\ Ready(client)
    /\ client' = Begin(client, "submitTask", "agent-task-dispatch", clock)
    /\ UNCHANGED <<entry, modeArg, config, mwConfig, workflows, regs, clock, call, mw,
                   custom, exec, task, orch, runs>>

\* Lines 402-407: every invocation is started, then all are awaited.
batchInvoke(batch) ==
    /\ entry = "client"
    /\ Ready(client)
    /\ client' = [BeginAll(client, batch, clock) EXCEPT
                    !.batch = [k |-> "batch", pc |-> "awaiting", requests |-> batch,
                               result |-> Absent]]
    /\ UNCHANGED <<entry, modeArg, config, mwConfig, workflows, regs, clock, call, mw,
                   custom, exec, task, orch, runs>>

\* discoverWorkflows (lines 158-173) once its fetch has settled, and the
\* invocation that awaited it running on to its POST.
DiscoverySettles(n, outcome) ==
    /\ n \in DOMAIN client.inv
    /\ client.inv[n].pc = "discovering"
    /\ client' =
         IF outcome.k = "rejected"
         THEN [client EXCEPT !.inv[n].pc = "rejected", !.inv[n].outcome = outcome]
         ELSE IF ~outcome.value.ok
         THEN [client EXCEPT !.inv[n].pc = "rejected",
                             !.inv[n].outcome =
                                 Rejected(ErrorValue("Failed to discover workflows"))]
         ELSE LET list == outcome.value.workflows
                  unset == \/ Nullish(client.config.recipientAddress)
                           \/ client.config.recipientAddress.a = EmptyString
              IN  Send([client EXCEPT
                          !.cachedWorkflows = list,
                          !.config.recipientAddress =
                              IF Len(list.items) > 0 /\ unset
                              THEN list.items[1].payment.recipient ELSE @],
                       n, clock)
    /\ UNCHANGED <<entry, modeArg, config, mwConfig, workflows, regs, clock, call, mw,
                   custom, exec, task, orch, runs>>

\* The POST of invocation n has settled: lines 273-292 of invoke, lines
\* 333-351 of submitTask.
FetchSettles(n, outcome) ==
    /\ n \in DOMAIN client.inv
    /\ client.inv[n].pc = "fetching"
    /\ client' =
         IF outcome.k = "rejected"
         THEN [client EXCEPT !.inv[n].pc = "rejected", !.inv[n].outcome = outcome]
         ELSE LET settled == InvokeResult(outcome.value, client.inv[n].proof)
              IN  [client EXCEPT
                     !.inv[n].pc = "resolved",
                     !.inv[n].outcome =
                         Resolved(IF client.inv[n].via = "invoke" THEN settled
                                  ELSE [settled EXCEPT !.meta = Absent])]
    /\ UNCHANGED <<entry, modeArg, config, mwConfig, workflows, regs, clock, call, mw,
                   custom, exec, task, orch, runs>>

\* Lines 405-448: Promise.allSettled has every outcome; the result is built.
BatchSettles ==
    /\ client.batch # Absent
    /\ client.batch.pc = "awaiting"
    /\ Settled(client)
    /\ client' = [client EXCEPT
          !.batch.pc = "resolved",
          !.batch.result =
              BatchResult(client.batch.requests,
                          [n \in DOMAIN client.inv |-> client.inv[n].outcome])]
    /\ UNCHANGED <<entry, modeArg, config, mwConfig, workflows, regs, clock, call, mw,
                   custom, exec, task, orch, runs>>

\* The caller has the value or the rejection of its call; the client keeps
\* its config and its cache.
Return ==
    /\ entry = "client"
    /\ ~Ready(client)
    /\ Settled(client)
    /\ IF client.batch = Absent THEN TRUE ELSE client.batch.pc = "resolved"
    /\ client' = [client EXCEPT !.inv = <<>>, !.fetched = 0, !.batch = Absent]
    /\ UNCHANGED <<entry, modeArg, config, mwConfig, workflows, regs, clock, call, mw,
                   custom, exec, task, orch, runs>>

ClientNext ==
    \/ \E workflowName \in InvocationNames : invoke(workflowName)
    \/ submitTask
    \/ \E batch \in Batches(MaxInvocations) : batchInvoke(batch)
    \/ \E n \in 1..MaxInvocations, outcome \in DiscoveryOutcomes :
          DiscoverySettles(n, outcome)
    \/ \E n \in 1..MaxInvocations, outcome \in FetchOutcomes : FetchSettles(n, outcome)
    \/ BatchSettles
    \/ Return

ClientSpec == ClientInit /\ [][ClientNext]_vars

\* ------------------------------------------------------- batchOrchestrate
\* Promise.all over the runs: it rejects with the first rejection, and
\* resolves with every result, in the order of the chains, once all runs have
\* resolved.
PromiseAll(r) ==
    IF r.pc # "awaiting" THEN r
    ELSE IF \E k \in DOMAIN r.run : r.run[k].pc = "rejected"
    THEN [r EXCEPT
            !.pc = "rejected",
            !.result = Rejected(r.run[CHOOSE k \in DOMAIN r.run :
                                         r.run[k].pc = "rejected"].rejection)]
    ELSE IF \A k \in DOMAIN r.run : r.run[k].pc = "resolved"
    THEN [r EXCEPT !.pc = "resolved",
                   !.result = Resolved([k \in DOMAIN r.run |-> r.run[k].result])]
    ELSE r

\* The chains of a batch, the configs they share and what the client.invoke
\* of a run settles with.
BatchChains ==
    { <<Name("price-feed")>>,
      <<Name("price-feed"), OrchestrationStep("compute-task", Obj("data" :> ArrayValue))>>,
      <<OrchestrationStep("compute-task", Obj("data" :> ArrayValue)),
        Name("price-feed")>> }

RECURSIVE ChainLists(_)
ChainLists(n) ==
    IF n = 0 THEN {<<>>}
    ELSE ChainLists(n - 1)
         \cup {Append(l, chain) : l \in {d \in ChainLists(n - 1) : Len(d) = n - 1},
                                  chain \in BatchChains}

BatchConfigs ==
    {c \in OrchestrationConfigs :
        /\ c.continueOnFailure \in {Absent, Flag(TRUE)}
        /\ c.initialPayload = Absent
        /\ c.payloadTransformer \in {Absent, Transformer("throws-null")}}

RunOutcomes ==
    {outcome \in ClientOutcomes :
        \/ outcome.k = "rejected" /\ outcome.reason = ErrorValue("Connection refused")
        \/ outcome.k = "resolved" /\ outcome.value.error # Absent
        \/ outcome.k = "resolved" /\ outcome.value.result.k = "obj"}

BatchInit ==
    /\ entry = "batch"
    /\ modeArg = Absent
    /\ config = GatewayConfig([recipientAddress |-> RECIPIENT,
                               defaultPriceUSDC |-> Absent, simulationMode |-> Absent])
    /\ mwConfig = VerifierConfig(RECIPIENT, 10000, Flag(TRUE))
    /\ custom = Absent
    /\ workflows = NewRegistry(custom)
    /\ regs = <<>>
    /\ clock = 0
    /\ call = Idle
    /\ mw = NoRequest
    /\ exec = NoExec
    /\ task = NoTask
    /\ orch = NoOrch
    /\ client = NoClient
    /\ runs = NoRuns

\* batchOrchestrate(chains, config), lines 295-300: every orchestrate call runs
\* to its first await, then Promise.all awaits them.
batchOrchestrate(chains, orchestrationConfig) ==
    /\ entry = "batch"
    /\ runs.pc = "idle"
    /\ runs' = PromiseAll([NoRuns EXCEPT
                  !.pc = "awaiting",
                  !.chains = chains,
                  !.run = [k \in DOMAIN chains |->
                              Started(chains[k], orchestrationConfig)]])
    /\ UNCHANGED <<client, orch, entry, modeArg, config, mwConfig, workflows, regs, clock,
                   call, mw, custom, exec, task>>

\* The client.invoke of run k settles; the run goes on to its next await or
\* settles, and then Promise.all may settle.
RunInvokeSettles(k, outcome) ==
    /\ k \in DOMAIN runs.run
    /\ runs.run[k].pc = "awaiting"
    /\ runs' = PromiseAll([runs EXCEPT !.run[k] = Resumed(@, outcome)])
    /\ UNCHANGED <<client, orch, entry, modeArg, config, mwConfig, workflows, regs, clock,
                   call, mw, custom, exec, task>>

BatchNext ==
    \/ \E chains \in ChainLists(MaxRuns), c \in BatchConfigs : batchOrchestrate(chains, c)
    \/ \E k \in 1..MaxRuns, outcome \in RunOutcomes : RunInvokeSettles(k, outcome)

BatchSpec == BatchInit /\ [][BatchNext]_vars

\* ==================================================== proofs of any shape
\* The middleware verifying proofs of every shape a decoded JSON object can
\* have with respect to the fields the type guards look at, and the proofs
\* the two construction helpers build.
ShapedProofs ==
    { Wire("base64", Document(version, payload, fields[1], fields[2], fields[3])) :
        version \in {Absent, Int_(1)},
        payload \in {Absent, Null, NonStr,
                     Payload(Junk, Authorization(Str(PAYER), Str(RecipientLower),
                                                 Int_(1000), Int_(0), Int_(MaxTime + 1)))},
        fields \in {<<Absent, Absent, Absent>>,
                    <<Str(OtherRecipient), Int_(2000), Absent>>,
                    <<Str(OtherRecipient), Int_(2000), Str(PAYER)>>} }
    \cup { createMockPaymentProof(PAYER, RECIPIENT, 10000),
           createRealX402Proof(PAYER, RECIPIENT, 10000, 0) }

ShapesInit ==
    /\ entry = "middleware"
    /\ \E m \in {Absent, Flag(TRUE), Flag(FALSE)} :
          /\ modeArg = m
          /\ mwConfig = VerifierConfig(RECIPIENT, 10000, MiddlewareSimulationMode(m))
    /\ config = GatewayConfig([recipientAddress |-> RECIPIENT,
                               defaultPriceUSDC |-> Absent, simulationMode |-> Absent])
    /\ workflows = BUILT_IN_WORKFLOWS
    /\ regs = <<>>
    /\ clock = 0
    /\ call = Idle
    /\ mw = NoRequest
    /\ custom = Absent
    /\ exec = NoExec
    /\ task = NoTask
    /\ orch = NoOrch
    /\ client = NoClient
    /\ runs = NoRuns

ShapesNext ==
    \/ Tick
    \/ \E w \in ShapedProofs : MiddlewareHandle(w)

ShapesSpec == ShapesInit /\ [][ShapesNext]_vars

\* ================================================================ properties
\* What a verification was given and what it answered, for the gateway call
\* and for the middleware request.
CallView ==
    [active |-> call.pc # "idle", proof |-> call.proof, at |-> call.at,
     payment |-> call.payment, price |-> call.requiredPrice,
     mode |-> FlagString(config.simulationMode)]

MwView ==
    [active |-> mw.state # "none", proof |-> mw.proof, at |-> mw.at,
     payment |-> mw.verification, price |-> mwConfig.requiredAmountUSDC,
     mode |-> mwConfig.simulationMode]

Views == {CallView, MwView}

\* The proof as a reader of the wire sees it.
IsObject(w) == w.enc \in {"base64", "json"} /\ w.doc.k = "obj"

IsDelegated(w) ==
    /\ IsObject(w)
    /\ w.doc.x402Version.k # "absent"
    /\ w.doc.payload.k = "obj"

IsSimple(w) ==
    /\ IsObject(w)
    /\ ~(w.doc.x402Version.k # "absent" /\ w.doc.payload.k \in {"obj", "null"})
    /\ w.doc.recipient.k # "absent"
    /\ w.doc.amount.k # "absent"
    /\ w.doc.payer.k # "absent"

HasAuthorization(w) == IsDelegated(w) /\ w.doc.payload.authorization.k = "obj"

ToField(w) ==
    IF HasAuthorization(w) THEN w.doc.payload.authorization.to
    ELSE IF IsSimple(w) THEN w.doc.recipient ELSE Absent

AmountField(w) ==
    IF HasAuthorization(w) THEN w.doc.payload.authorization.value
    ELSE IF IsSimple(w) THEN w.doc.amount ELSE Absent

\* A proof with an amount and a recipient to speak of.
WellFormed(w) ==
    /\ HasAuthorization(w) \/ IsSimple(w)
    /\ AmountField(w).k \in {"int", "absent", "null"}
    /\ ToField(w).k \in {"str", "absent", "null"}

AmountOf(w) == IF AmountField(w).k = "int" THEN AmountField(w).n ELSE 0
ToMatches(w) == ToField(w).k = "str" /\ ToField(w).a.id = RECIPIENT.id

\* The integer nearest to price * 1_000_000 (price in tenths of a micro-USDC).
RequiredMicro(price) ==
    CHOOSE r \in (price \div 10)..(price \div 10 + 1) :
        10 * r - 5 <= price /\ price < 10 * r + 5

WindowStart(w) == Coalesce(w.doc.payload.authorization.validAfter, Int_(0))
WindowEnd(w) == Coalesce(w.doc.payload.authorization.validBefore, Int_(0))
WindowCurrent(w, t) ==
    /\ WindowStart(w).k = "int" /\ WindowEnd(w).k = "int"
    /\ WindowStart(w).n <= t /\ t < WindowEnd(w).n

SignedByPayer(w) ==
    LET auth == w.doc.payload.authorization
        sig == w.doc.payload.signature
    IN  /\ sig.k = "sig"
        /\ auth.from.k = "str" /\ sig.signer = auth.from.a.id
        /\ sig.domain.chainId = (IF w.doc.network = "base" THEN 8453 ELSE 84532)
        /\ sig.domain.verifyingContract = "none"
        /\ sig.message = TypedMessage(auth)

Count(seq, e) == Cardinality({i \in DOMAIN seq : seq[i] = e})

\* C1: the handler is never executed unless verification returned valid, and
\* a call whose verification is invalid returns allowed=false with the
\* verification's error and no workflow result.
C1_NoPaymentNoCompute ==
    /\ ~(call.payment.kind = "returned" /\ call.payment.valid) =>
          /\ Count(call.events, "execute") = 0
          /\ call.executed = Absent
          /\ call.pc # "executing"
    /\ (call.pc = "returned" /\ ~call.payment.valid) =>
          /\ call.result.allowed = FALSE
          /\ call.result.error = call.payment.error
          /\ call.result.error # "none"
          /\ call.result.workflowResult = Absent
          /\ call.result.pricePaid = Absent

C1_Witness ==
    /\ call.pc = "returned"
    /\ ~call.payment.valid
    /\ call.payment.error = "insufficient"
    /\ call.workflowName = "price-feed"

\* C2: a call whose verification is valid executes the registry exactly once,
\* after the verification, and returns allowed=true with the workflow result
\* and the required price, whatever the proof paid.
BuiltInPrice(name) ==
    CASE name = "price-feed" -> 10000
      [] name = "compute-task" -> 20000
      [] OTHER -> IF config.defaultPriceUSDC.k = "int"
                  THEN config.defaultPriceUSDC.n ELSE 10000

C3_VerifyNeverThrows ==
    \A v \in Views : v.active =>
        /\ v.payment.kind = "returned"
        /\ ~WellFormed(v.proof) => (~v.payment.valid /\ v.payment.error # "none")

\* C4: in strict mode a Delegated proof is valid only if the typed-data
\* signature is the payer's; a proof that passes the recipient, amount and
\* window checks with any other signature is invalid with a signature error.
C4_StrictNeedsSignature ==
    \A v \in Views : (v.active /\ v.mode # "true" /\ HasAuthorization(v.proof)) =>
        /\ v.payment.valid => SignedByPayer(v.proof)
        /\ ( /\ WellFormed(v.proof) /\ ToMatches(v.proof)
             /\ AmountOf(v.proof) >= RequiredMicro(v.price)
             /\ WindowCurrent(v.proof, v.at)
             /\ ~SignedByPayer(v.proof) ) =>
               /\ v.payment.kind = "returned"
               /\ ~v.payment.valid
               /\ v.payment.error \in {"signature-failed", "signature-error"}

C4_Witness ==
    /\ call.pc = "returned"
    /\ FlagString(config.simulationMode) = "false"
    /\ HasAuthorization(call.proof)
    /\ ToMatches(call.proof)
    /\ AmountOf(call.proof) >= RequiredMicro(call.requiredPrice)
    /\ WindowCurrent(call.proof, call.at)
    /\ call.payment.error = "signature-error"
    /\ ~call.result.allowed

\* The error of the first check that fails, taking the checks in the order
\* missing proof, decode, recipient, amount, window, signature.
FirstFailure(v) ==
    LET w == v.proof
    IN  IF w.enc = "empty" THEN "missing-proof"
        ELSE IF ~IsObject(w) THEN "decode-failed"
        ELSE IF ~ToMatches(w) THEN "recipient-mismatch"
        ELSE IF ~(AmountField(w).k \in {"int", "absent", "null"}
                  /\ AmountOf(w) >= RequiredMicro(v.price)) THEN "insufficient"
        ELSE IF HasAuthorization(w) /\ WindowStart(w).k = "int" /\ v.at < WindowStart(w).n
        THEN "not-yet-valid"
        ELSE IF HasAuthorization(w) /\ ~WindowCurrent(w, v.at) THEN "expired"
        ELSE IF HasAuthorization(w) /\ v.mode # "true" /\ ~SignedByPayer(w) THEN "signature"
        ELSE "none"

ErrorClass(payment) ==
    IF payment.kind = "threw" THEN "exception"
    ELSE IF payment.error \in {"signature-failed", "signature-error"} THEN "signature"
    ELSE payment.error

\* C5: verify reports the error of the first failing check, in the order
\* missing proof, decode, recipient, amount, window, signature.
C5_ChecksInOrder ==
    \A v \in Views : (v.active /\ (HasAuthorization(v.proof) \/ IsSimple(v.proof)
                                   \/ ~IsObject(v.proof))) =>
        ErrorClass(v.payment) = FirstFailure(v)

C7_ValidIffAmountSuffices ==
    \A v \in Views : ( /\ v.active /\ v.mode = "true"
                       /\ HasAuthorization(v.proof) \/ IsSimple(v.proof)
                       /\ ToMatches(v.proof)
                       /\ HasAuthorization(v.proof) => WindowCurrent(v.proof, v.at) ) =>
        /\ v.payment.valid <=>
              /\ AmountField(v.proof).k \in {"int", "absent", "null"}
              /\ AmountOf(v.proof) >= RequiredMicro(v.price)
        /\ ( /\ AmountField(v.proof).k \in {"int", "absent", "null"}
             /\ AmountOf(v.proof) < RequiredMicro(v.price) ) =>
               v.payment.error = "insufficient"

C7_Witness ==
    /\ call.pc = "returned"
    /\ FlagString(config.simulationMode) = "true"
    /\ ToMatches(call.proof)
    /\ AmountOf(call.proof) = RequiredMicro(call.requiredPrice)
    /\ call.payment.valid
    /\ call.result.allowed

\* C8: a Delegated proof with matching recipient and sufficient amount passes
\* the time check exactly when validAfter <= now < validBefore; before the
\* window it is "not yet valid", at or after its end "expired", and none is
\* valid outside its window.
C8_ValidOnlyInsideWindow ==
    \A v \in Views : ( /\ v.active /\ HasAuthorization(v.proof)
                       /\ WellFormed(v.proof) /\ ToMatches(v.proof)
                       /\ AmountOf(v.proof) >= RequiredMicro(v.price) ) =>
        /\ v.payment.valid => WindowCurrent(v.proof, v.at)
        /\ (WindowStart(v.proof).k = "int" /\ v.at < WindowStart(v.proof).n) =>
              v.payment.error = "not-yet-valid"
        /\ (~WindowCurrent(v.proof, v.at)
            /\ ~(WindowStart(v.proof).k = "int" /\ v.at < WindowStart(v.proof).n)) =>
              v.payment.error = "expired"

\* C9: when the caller does not configure the mode, verification is strict.
C9_DefaultsToStrict ==
    \A v \in Views :
        (v.active /\ modeArg.k = "absent" /\ HasAuthorization(v.proof)
         /\ v.payment.valid) => SignedByPayer(v.proof)

\* C10: for a name the registry does not hold, the proof is verified against
\* the default price; an invalid proof is denied and a valid one is allowed
\* with a failed, handler-not-found workflow result, never an exception.
C10_UnknownHandlerStillGated ==
    (call.pc # "idle" /\ getWorkflow(workflows, call.workflowName).k = "absent") =>
        /\ call.requiredPrice = (IF config.defaultPriceUSDC.k = "int"
                                 THEN config.defaultPriceUSDC.n ELSE 10000)
        /\ (call.pc = "returned" /\ ~call.payment.valid) =>
              /\ ~call.result.allowed
              /\ call.result.error = call.payment.error
              /\ call.result.workflowResult = Absent
        /\ (call.payment.kind = "returned" /\ call.payment.valid) =>
              /\ call.pc # "rejected"
              /\ call.pc = "returned" =>
                    /\ call.result.allowed
                    /\ call.result.workflowResult.k = "result"
                    /\ call.result.workflowResult.status = "failed"
                    /\ call.result.workflowResult.error = "not-found"
        /\ (IsSimple(call.proof) /\ WellFormed(call.proof) /\ ToMatches(call.proof)) =>
              (call.payment.valid <=>
                  AmountOf(call.proof) >= RequiredMicro(call.requiredPrice))

C10_Witness ==
    /\ call.pc = "returned"
    /\ call.workflowName = "custom-wf"
    /\ getWorkflow(workflows, "custom-wf").k = "absent"
    /\ call.payment.valid
    /\ call.result.allowed
    /\ call.result.workflowResult.status = "failed"

\* ------------------------------------------------------------------ registry
\* Every registration the registry has seen, oldest first: the built-ins, the
\* constructor's list, the registerWorkflow calls.
BuiltInEntries ==
    << [name |-> "price-feed", def |-> Workflow(10000, "returns")],
       [name |-> "agent-task-dispatch", def |-> Workflow(100000, "returns")],
       [name |-> "weather-oracle", def |-> Workflow(50000, "returns")],
       [name |-> "compute-task", def |-> Workflow(20000, "needs-data")] >>

RegistrationLog ==
    BuiltInEntries \o (IF custom.k = "list" THEN custom.items ELSE <<>>) \o regs

RegisteredNames == {RegistrationLog[i].name : i \in DOMAIN RegistrationLog}

LastRegistered(name) ==
    LET at == {i \in DOMAIN RegistrationLog : RegistrationLog[i].name = name}
    IN  IF at = {} THEN Absent
        ELSE RegistrationLog[CHOOSE i \in at : \A j \in at : j <= i].def

\* C11: registry.execute never rejects; its result echoes the request's
\* requestId and workflowName; it is failed with an error naming the workflow
\* and listing the registered names when the name is unregistered, failed with
\* the fault's message when the handler throws (any value), and success with
\* the handler's return value otherwise.
C11_ExecuteNeverRejects ==
    exec.pc = "settled" =>
        /\ exec.outcome.k = "resolved"
        /\ exec.outcome.value.requestId = exec.request.requestId
        /\ exec.outcome.value.workflowName = exec.request.workflowName
        /\ IF exec.workflow.k # "wf"
           THEN /\ exec.outcome.value.status = "failed"
                /\ exec.outcome.value.error.k = "msg"
                /\ exec.outcome.value.error.workflowName = exec.request.workflowName
                /\ exec.outcome.value.error.available = exec.available
           ELSE IF HandlerThrows(exec.workflow, exec.request.payload)
           THEN /\ exec.outcome.value.status = "failed"
                /\ LET thrown == HandlerOutcome(exec.workflow, exec.request.payload).thrown
                   IN  thrown.k = "error" =>
                          exec.outcome.value.error = Message(thrown.message)
           ELSE /\ exec.outcome.value.status = "success"
                /\ exec.outcome.value.result =
                      HandlerOutcome(exec.workflow, exec.request.payload).value

\* What the registry answers, against the log of registrations.
C12_Lookup ==
    /\ \A n \in WorkflowNames : getWorkflow(workflows, n) = LastRegistered(n)
    /\ \A n \in RegisteredNames :
          Cardinality({e \in listWorkflows(workflows) : e.name = n}) = 1
    /\ \A e \in listWorkflows(workflows) :
          e.name \in RegisteredNames /\ e.def = LastRegistered(e.name)
    /\ Cardinality(listWorkflows(workflows)) = Cardinality(RegisteredNames)

\* C12: after any construction and registerWorkflow calls, getWorkflow(name)
\* is the definition most recently registered under the name (a custom one
\* overrides a built-in), listWorkflows has exactly one entry per registered
\* name, and a name once registered never becomes absent.
C12_LastRegistrationWins ==
    /\ []C12_Lookup
    /\ [][\A n \in WorkflowNames :
            getWorkflow(workflows, n).k = "wf" => getWorkflow(workflows', n).k = "wf"]_vars

C12_Witness ==
    /\ custom.k = "list" /\ Len(custom.items) = 2
    /\ custom.items[1].def # custom.items[2].def
    /\ regs # <<>>
    /\ regs[Len(regs)].name = "price-feed"
    /\ getWorkflow(workflows, "price-feed") = regs[Len(regs)].def
    /\ getWorkflow(workflows, "price-feed") # BuiltInEntries[1].def
    /\ getWorkflow(workflows, "custom-wf") = custom.items[2].def
    /\ exec.pc = "idle"

\* ------------------------------------------------------ orchestrateAgentTask
\* C13: orchestrateAgentTask rejects if and only if invoke returned
\* allowed=false, and then with the verification error as its message; when
\* the gate allows it resolves, even if the handler failed, with
\* workflowsInvoked the one routed name and totalSpentUSDC the price paid;
\* invoke itself never rejects on a denial.
C13_RejectsIffDenied ==
    /\ task.pc \in {"resolved", "rejected"} =>
          /\ task.pc = "rejected" <=> (call.pc = "returned" /\ ~call.result.allowed)
          /\ task.pc = "rejected" => task.error = call.payment.error
          /\ task.pc = "resolved" =>
                /\ call.result.allowed
                /\ task.result.workflowsInvoked = <<task.workflowName>>
                /\ Int_(task.result.totalSpentUSDC) = call.result.pricePaid
    /\ (call.payment.kind = "returned" /\ ~call.payment.valid) => call.pc # "rejected"

\* The keyword rules of the routing, in order.
RoutingRules ==
    << [words |-> {KwPrice, KwToken}, handler |-> "price-feed"],
       [words |-> {KwWeather}, handler |-> "weather-oracle"],
       [words |-> {KwCompute, KwCalculate}, handler |-> "compute-task"] >>

SameLetter(a, b) ==
    \/ a = b
    \/ \E i \in DOMAIN UpperCase :
          {a, b} = {UpperCase[i], LowerCase[i]}

Mentions(text, word) ==
    \E at \in 1..Len(text) :
        /\ at + Len(word) - 1 <= Len(text)
        /\ \A j \in DOMAIN word : SameLetter(text[at + j - 1], word[j])

ExpectedRoute(text) ==
    LET hits == {i \in DOMAIN RoutingRules :
                    \E word \in RoutingRules[i].words : Mentions(text, word)}
    IN  IF hits = {} THEN "agent-task-dispatch"
        ELSE RoutingRules[CHOOSE i \in hits : \A j \in hits : i <= j].handler

\* C14: the handler is chosen by case-insensitive substring match on the task
\* description, first matching rule wins (price/token, then weather, then
\* compute/calculate, else agent-task-dispatch), and invoke is called exactly
\* once, with the chosen name.
C14_RoutesByFirstKeyword ==
    task.pc # "idle" =>
        /\ task.workflowName = ExpectedRoute(task.request.task)
        /\ task.invoked = <<ExpectedRoute(task.request.task)>>
        /\ call.workflowName = ExpectedRoute(task.request.task)
        /\ Count(call.events, "verify") = 1

C14_Witness ==
    /\ task.pc = "resolved"
    /\ Mentions(task.request.task, KwToken)
    /\ Mentions(task.request.task, KwWeather)
    /\ ~includes(task.request.task, KwToken)
    /\ task.workflowName = "price-feed"
    /\ task.invoked = <<"price-feed">>

\* ------------------------------------------------------------- orchestrate
\* What the caller asked for, read from the arguments of orchestrate.
StopOnFailure ==
    orch.config.continueOnFailure.k # "bool" \/ ~orch.config.continueOnFailure.b

\* Positions are those of orch.stepResults: step j of the source is at j + 1.
FailedBefore(position) ==
    \E n \in 1..(position - 1) :
        n \in DOMAIN orch.stepResults /\ orch.stepResults[n].status = "failed"

InvokedFor(position) ==
    \E c \in DOMAIN orch.calls : orch.calls[c].stepIndex = position - 1

\* C15: under continueOnFailure=false, once a step has failed every later
\* step is recorded as skipped and client.invoke is never called for it; and
\* a step is recorded as skipped only if an earlier step of the run failed and
\* continueOnFailure is false.
C15_SkipsAfterFailure ==
    orch.pc # "idle" =>
        /\ \A n \in DOMAIN orch.stepResults :
              /\ (StopOnFailure /\ FailedBefore(n)) =>
                    orch.stepResults[n].status = "skipped" /\ ~InvokedFor(n)
              /\ orch.stepResults[n].status = "skipped" =>
                    StopOnFailure /\ FailedBefore(n) /\ ~InvokedFor(n)
        /\ \A c \in DOMAIN orch.calls :
              ~(StopOnFailure /\ FailedBefore(orch.calls[c].stepIndex + 1))

C15_Witness ==
    /\ orch.pc = "resolved"
    /\ Len(orch.stepResults) = 3
    /\ orch.stepResults[1].status = "success"
    /\ orch.stepResults[2].status = "failed"
    /\ orch.stepResults[3].status = "skipped"
    /\ Len(orch.calls) = 2

StepsWith(steps, status) == {n \in DOMAIN steps : steps[n].status = status}

\* C16: the status of a result is completed iff no step is failed; partial
\* iff continueOnFailure is true, a step failed and a step succeeded; failed
\* in every other case.
C16_StatusDerivation ==
    orch.pc = "resolved" =>
        LET failed == StepsWith(orch.result.steps, "failed")
            success == StepsWith(orch.result.steps, "success")
        IN  /\ orch.result.status \in {"completed", "partial", "failed"}
            /\ orch.result.status = "completed" <=> failed = {}
            /\ orch.result.status = "partial" <=>
                  (~StopOnFailure /\ failed # {} /\ success # {})
            /\ orch.result.status = "failed" <=>
                  (failed # {} /\ (StopOnFailure \/ success = {}))

C16_Witness ==
    /\ orch.pc = "resolved"
    /\ orch.result.status = "partial"
    /\ Len(orch.result.steps) = 3
    /\ orch.result.steps[2].status = "failed"
    /\ orch.result.steps[3].status = "success"

RECURSIVE SpentOn(_, _)
SpentOn(steps, positions) ==
    IF positions = {} THEN 0
    ELSE LET n == CHOOSE m \in positions : TRUE
         IN  steps[n].spentUSDC.n + SpentOn(steps, positions \ {n})

\* C17: totalSpentUSDC of a result is the sum of the price paid over exactly
\* the steps whose status in the result is success.
C17_SpentOnSuccessfulSteps ==
    orch.pc = "resolved" =>
        orch.result.totalSpentUSDC =
            SpentOn(orch.result.steps, StepsWith(orch.result.steps, "success"))

\* C18: finalResult of a result is the result of the highest-index step whose
\* status in the result is success, and absent when there is none.
C18_FinalResultOfLastSuccess ==
    orch.pc = "resolved" =>
        LET success == StepsWith(orch.result.steps, "success")
        IN  IF success = {} THEN orch.result.finalResult = Absent
            ELSE orch.result.finalResult =
                   orch.result.steps[CHOOSE n \in success : \A m \in success : m <= n].result

\* C19: when the transformer throws after step i succeeded, orchestrate does
\* not reject; step i is failed with a transformer-error message, the failure
\* flag is set, so under stop-on-failure no later step is invoked and each is
\* skipped, and the status of the result is not completed.
C19_TransformerFaultFailsStep ==
    (orch.pc # "idle" /\ orch.config.payloadTransformer.k = "fn"
       /\ orch.config.payloadTransformer.does \in {"throws", "throws-null"}) =>
        \A t \in DOMAIN orch.transforms :
            LET at == orch.transforms[t].stepIndex + 1
            IN  /\ ~(orch.pc = "rejected" /\ orch.rejection.catchOf = "transformer")
                /\ orch.stepResults[at].status = "failed"
                /\ orch.stepResults[at].error.k = "msg"
                /\ orch.stepResults[at].error.text = "Payload transformer error"
                /\ orch.hasFailure
                /\ StopOnFailure =>
                      /\ \A c \in DOMAIN orch.calls : orch.calls[c].stepIndex < at
                      /\ \A n \in DOMAIN orch.stepResults :
                            n > at => orch.stepResults[n].status = "skipped"
                /\ orch.pc = "resolved" =>
                      /\ orch.result.status # "completed"
                      /\ orch.result.steps[at].status = "failed"

\* {previousResult: r}, with r's own fields beside it when r is a record.
WrapPrevious(r) ==
    Obj([key \in {"previousResult"} \cup (IF r.k = "obj" THEN DOMAIN r.fields ELSE {}) |->
            IF key = "previousResult" THEN r ELSE r.fields[key]])

ExpectedTransform(r, nextWorkflow, stepIndex) ==
    IF orch.config.payloadTransformer.k = "fn"
    THEN Transform(orch.config.payloadTransformer, r, nextWorkflow, stepIndex).value
    ELSE WrapPrevious(r)

\* C20: the payload given to client.invoke is the step's override payload if
\* it has one; otherwise the initialPayload (default {}) for the first step,
\* and for a later step the transformer applied to the result of the step
\* before it when that step succeeded; the default transformer yields
\* {previousResult: r} merged with r's own fields when r is a record.
C20_PayloadChaining ==
    orch.pc # "idle" =>
        \A c \in DOMAIN orch.calls :
            LET invoked == orch.calls[c]
                item == orch.workflowChain[invoked.stepIndex + 1]
            IN  /\ invoked.workflowName = item.workflowName
                /\ IF item.k = "step" /\ item.payload.k = "obj"
                   THEN invoked.payload = item.payload
                   ELSE IF invoked.stepIndex = 0
                   THEN invoked.payload =
                          (IF orch.config.initialPayload.k = "obj"
                           THEN orch.config.initialPayload ELSE Obj(NoFields))
                   ELSE orch.stepResults[invoked.stepIndex].status = "success" =>
                          invoked.payload =
                            ExpectedTransform(orch.stepResults[invoked.stepIndex].result,
                                              invoked.workflowName,
                                              invoked.stepIndex - 1)

C20_Witness ==
    /\ orch.pc = "resolved"
    /\ orch.config.payloadTransformer = Absent
    /\ Len(orch.calls) = 3
    /\ orch.workflowChain[2].k = "name"
    /\ orch.workflowChain[3].k = "step"
    /\ orch.stepResults[1].status = "success"
    /\ orch.stepResults[1].result.k = "obj"
    /\ "price" \in DOMAIN orch.calls[2].payload.fields
    /\ orch.calls[2].payload.fields["previousResult"] = orch.stepResults[1].result
    /\ orch.calls[3].payload = orch.workflowChain[3].payload
\* What orchestrate does next once step o.i has been recorded as a failure:
\* under stop-on-failure it invokes nothing more, records every later step as
\* skipped and resolves; otherwise it invokes the next step, or resolves
\* after the last one.
FailurePolicyApplied(before, after) ==
    LET at == before.i + 1
    IN  /\ after.hasFailure
        /\ after.totalSpentUSDC = before.totalSpentUSDC
        /\ after.lastSuccessResult = before.lastSuccessResult
        /\ after.transforms = before.transforms
        /\ IF StopOnFailure \/ at = Len(before.steps)
           THEN /\ after.pc = "resolved"
                /\ after.calls = before.calls
                /\ Len(after.stepResults) = Len(before.steps)
                /\ \A n \in (at + 1)..Len(before.steps) :
                      after.stepResults[n].status = "skipped"
                /\ after.result.steps = after.stepResults
           ELSE /\ after.pc = "awaiting"
                /\ Len(after.calls) = Len(before.calls) + 1
                /\ after.calls[Len(after.calls)].stepIndex = at
                /\ after.calls[Len(after.calls)].workflowName =
                      before.steps[at + 1].workflowName
                /\ Len(after.stepResults) = at

\* C21: when client.invoke rejects for a step, orchestrate does not reject:
\* the step is recorded as failed with the message of the fault, and the
\* remaining steps are treated exactly as after a step that returned
\* success=false.
C21_RejectionIsStepFailure ==
    [][\A outcome \in ClientOutcomes :
          ClientInvokeSettles(outcome) =>
             LET at == orch.i + 1
             IN  /\ (outcome.k = "rejected" \/ ~outcome.value.success) =>
                       /\ orch'.pc # "rejected"
                       /\ orch'.stepResults[at].status = "failed"
                       /\ orch'.stepResults[at].stepIndex = orch.i
                       /\ orch'.stepResults[at].result = Absent
                       /\ FailurePolicyApplied(orch, orch')
                 /\ outcome.k = "rejected" =>
                       orch'.stepResults[at].error = Message(outcome.reason.message)]_vars

C21_Witness ==
    /\ orch.pc = "resolved"
    /\ StopOnFailure
    /\ Len(orch.stepResults) = 3
    /\ orch.stepResults[1].status = "success"
    /\ orch.stepResults[2].status = "failed"
    /\ orch.stepResults[2].error = Message("Connection refused")
    /\ orch.stepResults[3].status = "skipped"
    /\ orch.result.status = "failed"
\* C22: a result has exactly one step result per chain element, in chain
\* order, with steps[i].stepIndex = i and steps[i].workflowName the chain's
\* i-th name; stepsCompleted is the number of steps that are not skipped,
\* which is the number of client.invoke calls of the run.
C22_OneStepPerChainElement ==
    orch.pc = "resolved" =>
        /\ Len(orch.result.steps) = Len(orch.workflowChain)
        /\ Len(orch.result.workflowChain) = Len(orch.workflowChain)
        /\ \A n \in DOMAIN orch.workflowChain :
              /\ orch.result.steps[n].stepIndex = n - 1
              /\ orch.result.steps[n].workflowName = orch.workflowChain[n].workflowName
              /\ orch.result.workflowChain[n] = orch.workflowChain[n].workflowName
        /\ orch.result.stepsCompleted =
              Cardinality({n \in DOMAIN orch.result.steps :
                             orch.result.steps[n].status # "skipped"})
        /\ orch.result.stepsCompleted = Len(orch.calls)
        /\ \A n \in DOMAIN orch.result.steps :
              orch.result.steps[n].status # "skipped" <=> InvokedFor(n)

C22_Witness ==
    /\ orch.pc = "resolved"
    /\ Len(orch.workflowChain) = 3
    /\ orch.workflowChain[1].workflowName = "compute-task"
    /\ orch.workflowChain[2].workflowName = "price-feed"
    /\ orch.result.steps[1].status = "failed"
    /\ orch.result.steps[3].status = "skipped"
    /\ orch.result.stepsCompleted = 1
    /\ Len(orch.calls) = 1
\* ------------------------------------------------------ requireX402Payment
\* C30: for every request the middleware does exactly one of two things: on
\* an invalid verification it responds 402 with payment instructions, does
\* not call next and sets no res.locals.x402Payment; on a valid one it sets
\* res.locals.x402Payment from the verification and calls next exactly once
\* without responding.
C30_RespondsOrPasses ==
    mw.state # "none" =>
        /\ mw.state \in {"responded", "passed"}
        /\ mw.state = "responded" =>
              /\ ~mw.verification.valid
              /\ mw.status = 402
              /\ PaymentRequired(mw, mwConfig).body.required.k = "obj"
              /\ mw.nextCalls = 0
              /\ mw.locals = Absent
        /\ mw.state = "passed" =>
              /\ mw.verification.kind = "returned" /\ mw.verification.valid
              /\ mw.status = 0
              /\ mw.nextCalls = 1
              /\ mw.locals.valid
              /\ mw.locals.amount = mw.verification.amount
              /\ mw.locals.recipient = mw.verification.recipient
              /\ mw.locals.payer = mw.verification.payer
        /\ mw.nextCalls > 0 => mw.verification.valid
\* ------------------------------------------------------------ HTTP gateway
\* The response tells how to pay: the required amount, the recipient, the
\* network and the resource.
Instructs(reply) ==
    /\ reply.body.required.k = "obj"
    /\ reply.body.required.amount.k = "int"
    /\ reply.body.required.recipient.k = "str"
    /\ reply.body.required.network.k = "value"
    /\ reply.body.required.resource.k = "value"

\* C26: every response to a denied invocation, from POST /invoke/:workflow,
\* from POST /agent/task and from the middleware, carries the required amount,
\* the recipient, the network and the resource.
C26_DenialsCarryInstructions ==
    /\ (entry = "server" /\ call.pc = "returned" /\ ~call.result.allowed) =>
          Instructs(InvokeRoute(call, workflows))
    /\ (task.pc = "rejected" /\ task.request.task # <<>>
          /\ call.pc = "returned" /\ ~call.result.allowed) =>
          Instructs(TaskRoute(task))
    /\ mw.state = "responded" => Instructs(PaymentRequired(mw, mwConfig))
\* ------------------------------------------------------------- end to end
\* The step result that orchestrate([workflowName]) records when its
\* client.invoke resolves with invokeResult.
StepRecorded(workflowName, invokeResult) ==
    LET o == RunLoop([NoOrch EXCEPT !.steps = normalizeChain(<<Name(workflowName)>>)])
        after == IF invokeResult.success THEN AfterSuccess(o, invokeResult)
                 ELSE AfterFailure(o, invokeResult)
    IN  after.stepResults[1]

\* The step of an orchestration whose invocation was the gateway call c,
\* answered by POST /invoke/:workflow and read by AgentClient.invoke.
StepOfCall(c) ==
    StepRecorded(c.workflowName, InvokeResult(InvokeRoute(c, workflows), c.proof))

HandlerFaulted(c) ==
    /\ c.payment.kind = "returned" /\ c.payment.valid
    /\ c.executed.k = "wf"
    /\ HandlerThrows(c.executed, c.payload)

\* C25: end to end, a step whose handler faults after a valid payment is
\* recorded as failed, as is a step whose payment verification denied.
C25_HandlerFaultIsFailedStep ==
    (entry = "server" /\ call.pc \in {"returned", "rejected"}) =>
        /\ (call.pc = "returned" /\ ~call.result.allowed) =>
              StepOfCall(call).status = "failed"
        /\ HandlerFaulted(call) => StepOfCall(call).status = "failed"
\* ------------------------------------------------------------ WalletSigner
SignerProofs ==
    { createPaymentProof(PAYER, RECIPIENT, amountUSDC, now) :
        amountUSDC \in {10000, 100000}, now \in 0..MaxTime }

\* C27: a proof made by WalletSigner.createPaymentProof for recipient R and
\* amount a is valid for a strict-mode verifier configured with recipient R
\* and a required amount not above a, inside the proof's validity window.
C27_SignerProofVerifiesStrict ==
    ( /\ call.pc # "idle"
      /\ call.proof \in SignerProofs
      /\ FlagString(config.simulationMode) = "false"
      /\ ToMatches(call.proof)
      /\ AmountOf(call.proof) >= RequiredMicro(call.requiredPrice)
      /\ WindowCurrent(call.proof, call.at) ) =>
        /\ call.payment.kind = "returned"
        /\ call.payment.valid
\* ------------------------------------------------------------- AgentClient
\* The batchInvoke call in progress or returned, if there is one.
InBatch == client.batch # Absent

\* C23: batchInvoke starts all N invocations before any has finished and
\* never rejects; for every completion order its result has N items with
\* results[i].index = i and results[i].workflowName = batch[i].workflowName;
\* an invocation that rejects or resolves with success=false is a failed
\* item and the others complete; succeeded + failed = totalRequested = N and
\* succeeded is the number of items with status success.
C23_BatchSettlesEveryItem ==
    InBatch =>
        LET batch == client.batch.requests
            result == client.batch.result
        IN  /\ client.batch.pc \in {"awaiting", "resolved"}
            /\ Len(client.inv) = Len(batch)
            /\ \A n \in DOMAIN batch :
                  /\ client.inv[n].via = "invoke"
                  /\ client.inv[n].workflowName = batch[n].workflowName
            /\ client.batch.pc = "resolved" =>
                  /\ Settled(client)
                  /\ Len(result.results) = Len(batch)
                  /\ \A n \in DOMAIN batch :
                        /\ result.results[n].index = n - 1
                        /\ result.results[n].workflowName = batch[n].workflowName
                        /\ result.results[n].status = "success" <=>
                              /\ client.inv[n].pc = "resolved"
                              /\ client.inv[n].outcome.value.success
                        /\ result.results[n].status = "failed" <=>
                              \/ client.inv[n].pc = "rejected"
                              \/ ~client.inv[n].outcome.value.success
                  /\ result.totalRequested = Len(batch)
                  /\ result.succeeded + result.failed = Len(batch)
                  /\ result.succeeded =
                        Cardinality({n \in DOMAIN batch :
                                       result.results[n].status = "success"})

\* The first invocation rejected, after the second one had succeeded.
C23_Witness ==
    /\ InBatch
    /\ client.batch.pc = "resolved"
    /\ Len(client.batch.requests) = 2
    /\ client.inv[1].pc = "rejected"
    /\ client.inv[2].pc = "resolved"
    /\ client.inv[2].outcome.value.success
    /\ client.batch.result.results[1].status = "failed"
    /\ client.batch.result.results[2].status = "success"
    /\ client.batch.result.succeeded = 1
    /\ client.batch.result.failed = 1

\* A catalog with entries, none of them for this name.
UnknownTo(list, workflowName) ==
    /\ Len(list.items) > 0
    /\ \A i \in DOMAIN list.items : list.items[i].name # workflowName

\* Invocation n did not throw: its request is on its way with a proof of the
\* default price 0.001 addressed to the recipient the client has, which is
\* the configured one or else the one adopted from the first catalog entry.
SentAtDefaultPrice(n) ==
    /\ client'.inv[n].pc = "fetching"
    /\ AmountOf(client'.inv[n].proof) = RoundToMicro(10000)
    /\ ToField(client'.inv[n].proof) = client'.config.recipientAddress
    /\ client'.config.recipientAddress =
          IF Nullish(client.config.recipientAddress)
          THEN client'.cachedWorkflows.items[1].payment.recipient
          ELSE client.config.recipientAddress

\* What invoke resolves with for a response, having sent paymentProof.
Reported(result, response, paymentProof) ==
    /\ result.success = response.ok
    /\ result.paymentUsed = paymentProof
    /\ ~response.ok =>
          result.error =
              IF ~Nullish(response.body.message) THEN response.body.message
              ELSE IF ~Nullish(response.body.error) THEN response.body.error
              ELSE [k |-> "msg", text |-> "HTTP", status |-> response.status]

ProofsAddressedTo(recipient) ==
    \A n \in DOMAIN client'.inv :
        client'.inv[n].proof # Absent => ToField(client'.inv[n].proof) = recipient

\* A recipient that the client has before it has discovered any catalog is
\* the one of its configuration.
Configured ==
    /\ client.cachedWorkflows = Null
    /\ ~Nullish(client.config.recipientAddress)

\* C29: with recipientAddress set in the configuration, discovery never
\* changes it and every proof constructed by invoke or submitTask is
\* addressed to it, whatever recipient the discovered catalog advertises; a
\* catalog's recipient is adopted only when none is configured.
C29_ConfiguredRecipientIsPaid ==
    [][Configured =>
          /\ client'.config.recipientAddress = client.config.recipientAddress
          /\ ProofsAddressedTo(client.config.recipientAddress)]_vars

\* ------------------------------------------------------- batchOrchestrate
ChainNames(chain) == [n \in DOMAIN chain |-> chain[n].workflowName]

\* C24: batchOrchestrate runs the chains concurrently and, for every
\* interleaving of their steps, returns exactly one OrchestrationResult per
\* chain with result[k].workflowChain equal to the names of chain k; a
\* failure in one chain never causes a step of another chain to be failed or
\* skipped, so no chain's outcome keeps the batch from returning.
C24_BatchReturnsOnePerChain ==
    /\ [](runs.pc # "idle" =>
            /\ Len(runs.run) = Len(runs.chains)
            /\ runs.pc \in {"awaiting", "resolved"}
            /\ runs.pc = "resolved" =>
                  /\ runs.result.k = "resolved"
                  /\ Len(runs.result.value) = Len(runs.chains)
                  /\ \A k \in DOMAIN runs.chains :
                        runs.result.value[k].workflowChain = ChainNames(runs.chains[k]))
    /\ [][\A k \in 1..MaxRuns, outcome \in RunOutcomes :
             RunInvokeSettles(k, outcome) =>
                 \A j \in DOMAIN runs.run : j # k => runs'.run[j] = runs.run[j]]_vars

\* ------------------------------------------------- a proof presented again
\* The proof has no expiry that has passed: a Simple proof has none.
Unexpired(w, now) ==
    HasAuthorization(w) => ~(WindowEnd(w).k = "int" /\ now >= WindowEnd(w).n)

\* C32: the gateway keeps no record of used proofs: the proof of a call that
\* was allowed is allowed again, for the same required price, every time it
\* is presented until validBefore (a Simple proof: at any time), and the
\* handler is executed again; the verification is the same whenever proof,
\* recipient, price, mode and time are the same, whatever came before.
C32_ReplayAllowed ==
    /\ [][PresentsAgain =>
            /\ (/\ call.result.allowed
                /\ call'.requiredPrice = call.requiredPrice
                /\ Unexpired(call.proof, clock))
               => GateOpen(call'.payment)
            /\ (call'.requiredPrice = call.requiredPrice /\ clock = call.at)
               => call'.payment = call.payment]_vars
    /\ [](call.pc = "returned" /\ GateOpen(call.payment) =>
            /\ call.result.allowed
            /\ Len(call.events) >= 3
            /\ SubSeq(call.events, Len(call.events) - 2, Len(call.events))
                  = <<"verify", "execute", "return">>)

\* A Delegated proof allowed and executed a second time, later than the
\* first time.
C32_Witness ==
    /\ HasAuthorization(call.proof)
    /\ call.pc = "returned"
    /\ call.result.allowed
    /\ Count(call.events, "execute") = 2
    /\ call.at > 0

\* ------------------------------------------------ Simple proofs, strict mode
\* C33: with simulationMode=false a Simple proof is verified by recipient and
\* amount only: every Simple proof whose recipient matches and whose amount
\* is sufficient is valid, at any time and without a signature, and
\* gateway.invoke executes the handler for it.
C33_StrictAcceptsSimple ==
    /\ \A v \in Views : ( /\ v.active /\ v.mode = "false"
                          /\ IsSimple(v.proof)
                          /\ ToMatches(v.proof)
                          /\ AmountField(v.proof).k \in {"int", "absent", "null"}
                          /\ AmountOf(v.proof) >= RequiredMicro(v.price) ) =>
            /\ v.payment.kind = "returned"
            /\ v.payment.valid
    /\ ( /\ call.pc \in {"executing", "returned"}
         /\ FlagString(config.simulationMode) = "false"
         /\ IsSimple(call.proof)
         /\ ToMatches(call.proof)
         /\ AmountField(call.proof).k \in {"int", "absent", "null"}
         /\ AmountOf(call.proof) >= RequiredMicro(call.requiredPrice) ) =>
            /\ Count(call.events, "execute") = 1
            /\ call.pc = "returned" => call.result.allowed

\* In strict mode, after the clock has run, a Simple proof was allowed.
C33_Witness ==
    /\ FlagString(config.simulationMode) = "false"
    /\ call.pc = "returned"
    /\ call.at > 0
    /\ IsSimple(call.proof)
    /\ call.proof.doc.x402Version.k = "absent"
    /\ call.payment.valid
    /\ call.result.allowed
    /\ call.result.workflowResult # Absent

\* ---------------------------------------------------- proofs of any shape
\* What the claim calls Delegated and Simple.
HasVersionAndPayloadObject(w) ==
    /\ IsObject(w)
    /\ w.doc.x402Version.k # "absent"
    /\ w.doc.payload.k = "obj"

HasSimpleFields(w) ==
    /\ IsObject(w)
    /\ w.doc.recipient.k # "absent"
    /\ w.doc.amount.k # "absent"
    /\ w.doc.payer.k # "absent"

\* The verification speaks of the recipient and amount in these fields.
VerifiedFrom(payment, to, amount) ==
    /\ payment.kind = "returned"
    /\ to.k = "str" /\ payment.recipient = to.a
    /\ amount.k = "int" /\ payment.amount = amount.n

\* C34: classification of a decoded proof is total and deterministic: an
\* object with an x402Version field and an object-valued payload is treated
\* as Delegated, also when it has recipient, amount and payer fields;
\* otherwise an object with these three fields is treated as Simple;
\* otherwise verify returns valid=false, unrecognized format.  What
\* createMockPaymentProof builds is Simple only, what createRealX402Proof
\* builds Delegated only.
C34_ClassificationTotal ==
    /\ (mw.state # "none" /\ IsObject(mw.proof)) =>
          IF HasVersionAndPayloadObject(mw.proof)
          THEN VerifiedFrom(mw.verification, mw.proof.doc.payload.authorization.to,
                            mw.proof.doc.payload.authorization.value)
          ELSE IF HasSimpleFields(mw.proof)
          THEN VerifiedFrom(mw.verification, mw.proof.doc.recipient, mw.proof.doc.amount)
          ELSE /\ mw.verification.kind = "returned"
               /\ ~mw.verification.valid
               /\ mw.verification.error = "unrecognized-format"
    /\ LET mock == createMockPaymentProof(PAYER, RECIPIENT, 10000)
           real == createRealX402Proof(PAYER, RECIPIENT, 10000, clock)
       IN  /\ HasSimpleFields(mock) /\ ~HasVersionAndPayloadObject(mock)
           /\ isMockProof(decodePaymentProof(mock))
           /\ ~isRealX402Proof(decodePaymentProof(mock))
           /\ HasVersionAndPayloadObject(real) /\ ~HasSimpleFields(real)
           /\ isRealX402Proof(decodePaymentProof(real))
           /\ ~isMockProof(decodePaymentProof(real))

\* ------------------------------------------------- one invoke at a time
\* The client.invoke calls of run o that have not been recorded as a step.
InFlight(o) == Len(o.calls) - (Len(o.stepResults) - CountStatus(o.stepResults, "skipped"))

\* C35: within one orchestrate run the invoke of a step is started only once
\* the invoke of the step before has settled and that step is recorded: at
\* most one invoke of a run is in flight, also when several runs execute
\* concurrently under batchOrchestrate.
C35_OneInvokeInFlight ==
    \A k \in DOMAIN runs.run :
        LET o == runs.run[k]
        IN  /\ InFlight(o) \in {0, 1}
            /\ InFlight(o) = 1 <=> o.pc = "awaiting"
            /\ \A c \in DOMAIN o.calls :
                  /\ c > 1 => o.calls[c - 1].stepIndex < o.calls[c].stepIndex
                  /\ \A n \in 1..o.calls[c].stepIndex :
                        /\ n \in DOMAIN o.stepResults
                        /\ o.stepResults[n].stepIndex = n - 1
            /\ o.pc = "awaiting" =>
                  Len(o.stepResults) = o.calls[Len(o.calls)].stepIndex

\* Two runs at once, each waiting for the invoke of its second step.
C35_Witness ==
    /\ runs.pc = "awaiting"
    /\ Len(runs.run) = 2
    /\ \A k \in 1..2 :
          /\ runs.run[k].pc = "awaiting"
          /\ Len(runs.run[k].calls) = 2
          /\ Len(runs.run[k].stepResults) = 1

\* ------------------------------------------------------ catalog fetches
\* C36: the client fetches the catalog at most once while its cache is not
\* cleared: no fetch of GET /workflows is started while a catalog is cached,
\* and the N invocations that batchInvoke starts on an empty cache result in
\* a single discovery fetch.
C36_CatalogFetchedOnce ==
    /\ [](InBatch => client.fetched <= 1)
    /\ [][client.cachedWorkflows # Null =>
            client'.fetched <= client.fetched]_vars

\* ------------------------------------------------------ stop on failure
\* C37: with continueOnFailure=false the statuses of the steps of a result
\* are success* or success* failed skipped*: at most one step is failed, it
\* is the last step that was invoked, and no step after it is success or
\* failed.
C37_StopsAtFirstFailure ==
    (orch.pc = "resolved" /\ ~orch.continueOnFailure) =>
        LET steps == orch.result.steps
        IN  \A n \in DOMAIN steps :
              /\ steps[n].status \in {"success", "failed", "skipped"}
              /\ steps[n].status = "failed" =>
                    /\ \A m \in 1..(n - 1) : steps[m].status = "success"
                    /\ \A m \in (n + 1)..Len(steps) : steps[m].status = "skipped"
                    /\ Len(orch.calls) = n
                    /\ orch.calls[n].stepIndex = n - 1
              /\ steps[n].status = "skipped" =>
                    \E m \in 1..(n - 1) : steps[m].status = "failed"

\* The first step succeeded, the second failed, the third was skipped.
C37_Witness ==
    /\ orch.pc = "resolved"
    /\ ~orch.continueOnFailure
    /\ Len(orch.result.steps) = 3
    /\ orch.result.steps[1].status = "success"
    /\ orch.result.steps[2].status = "failed"
    /\ orch.result.steps[3].status = "skipped"
    /\ Len(orch.calls) = 2

\* ------------------------------------------------ payload past a failure
\* The chained payload that is current when the step with index stepIndex is
\* invoked: the transform of the most recent earlier step that is recorded as
\* a success, or the initial payload.
RECURSIVE ChainedBefore(_)
ChainedBefore(stepIndex) ==
    IF stepIndex = 0
    THEN (IF orch.config.initialPayload.k = "obj"
          THEN orch.config.initialPayload ELSE Obj(NoFields))
    ELSE IF orch.stepResults[stepIndex].status = "success"
    THEN ExpectedTransform(orch.stepResults[stepIndex].result,
                           orch.workflowChain[stepIndex + 1].workflowName,
                           stepIndex - 1)
    ELSE ChainedBefore(stepIndex - 1)

HasOverride(item) == item.k = "step" /\ item.payload.k = "obj"

\* C38: with continueOnFailure=true a failed step leaves the chained payload
\* unchanged: the next step without an override payload is invoked with the
\* chained payload that was current when the failed step was invoked (the
\* transform of the most recent earlier success whose transform succeeded,
\* or the initial payload); nothing derived from a failed step is passed on.
C38_FailureKeepsPayload ==
    (orch.pc # "idle" /\ orch.continueOnFailure) =>
        \A c \in DOMAIN orch.calls :
            LET invoked == orch.calls[c]
                before == invoked.stepIndex
            IN  ( /\ before >= 1
                  /\ ~HasOverride(orch.workflowChain[before + 1])
                  /\ orch.stepResults[before].status = "failed" ) =>
                    /\ invoked.payload = ChainedBefore(before - 1)
                    /\ ~HasOverride(orch.workflowChain[before]) =>
                          /\ c > 1
                          /\ orch.calls[c - 1].stepIndex = before - 1
                          /\ invoked.payload = orch.calls[c - 1].payload

\* The first step succeeded and was transformed, the second failed, and the
\* third was invoked with the transform of the first step's result.
C38_Witness ==
    /\ orch.continueOnFailure
    /\ Len(orch.calls) = 3
    /\ Len(orch.stepResults) >= 2
    /\ orch.stepResults[1].status = "success"
    /\ orch.stepResults[2].status = "failed"
    /\ ~HasOverride(orch.workflowChain[3])
    /\ orch.calls[3].payload = ChainedBefore(1)
    /\ orch.calls[3].payload # Obj(NoFields)
    /\ orch.config.initialPayload = Absent

\* ------------------------------------------------- calls of the transformer
TransformerFaults ==
    /\ orch.config.payloadTransformer.k = "fn"
    /\ orch.config.payloadTransformer.does \in {"throws", "throws-null"}

\* C39: the payload transformer is called exactly once after each step that
\* succeeds and is not the last of the chain, also when the next step has an
\* override payload (a fault then still flips the step to failed); it is
\* never called after a failed step, a skipped step or the last step.
C39_TransformerCalledOncePerSuccess ==
    orch.pc # "idle" =>
        /\ \A t \in DOMAIN orch.transforms :
              LET at == orch.transforms[t].stepIndex + 1
              IN  /\ at < Len(orch.steps)
                  /\ t > 1 => orch.transforms[t - 1].stepIndex + 1 < at
                  /\ orch.transforms[t].nextWorkflow = orch.steps[at + 1].workflowName
                  /\ at \in DOMAIN orch.stepResults
                  /\ orch.stepResults[at].result = orch.transforms[t].stepResult
                  /\ IF TransformerFaults
                     THEN /\ orch.stepResults[at].status = "failed"
                          /\ orch.stepResults[at].error.k = "msg"
                          /\ orch.stepResults[at].error.text = "Payload transformer error"
                     ELSE orch.stepResults[at].status = "success"
        /\ \A n \in DOMAIN orch.stepResults :
              (orch.stepResults[n].status = "success" /\ n < Len(orch.steps)) =>
                  \E t \in DOMAIN orch.transforms : orch.transforms[t].stepIndex = n - 1

\* ------------------------------------------- the price of what was executed
\* C40: in every allowed result of gateway.invoke, pricePaid is the
\* registered price of the definition that was executed, also when
\* registerWorkflow replaces the definition under that name between the
\* price lookup, the verification and the execution.
C40_PricePaidOfExecuted ==
    ( /\ call.pc = "returned"
      /\ call.result.allowed
      /\ call.executed.k = "wf" ) =>
        call.result.pricePaid = Int_(call.executed.priceUSDC)
====
